---- MODULE Spec2Model ----
(***************************************************************************)
(* Model of rosey's transactional relocation engine                        *)
(* (src/src/rosey/mover/mover.py): discover_sidecars, check_preflight,     *)
(* apply_conflict_suffix, move_file_transactional and move_with_sidecars,  *)
(* over a filesystem of two directories (the source directory and the      *)
(* destination directory).  Every filesystem call the code makes that can  *)
(* fail is a nondeterministic choice between its outcomes.                 *)
(***************************************************************************)
EXTENDS Integers, Sequences, FiniteSets, TLC

VARIABLES
    fs,          \* the files: a function from the existing paths to their content
    dstDir,      \* TRUE iff the destination directory exists
    call,        \* arguments of the call in progress: op, conflict_policy, dry_run
    pc,          \* position of the call in the code
    sidecars,    \* move_with_sidecars: list returned by discover_sidecars
    preflight,   \* move_with_sidecars: dict returned by check_preflight
    moved_files, \* move_with_sidecars: destinations recorded so far
    details,     \* move_with_sidecars: the four categorised path lists
    errors,      \* move_with_sidecars: error strings
    i,           \* move_with_sidecars: index of the companion being moved
    mf,          \* move_file_transactional frame: source, dest, action, caller
    acs,         \* apply_conflict_suffix frame: path, counter, caller
    ret,         \* value returned by the last move_file_transactional call
    result,      \* value returned by the top-level call
    hist,        \* history: the state at call start and what happened since
    world,       \* identification: the directory tree the files lie in
    identifier,  \* identification: the Identifier instance (options, caches)
    idres,       \* identification: what the last identification call returned
    task,        \* move task: the MoveTask instance and the position of run
    signals,     \* move task: the signals emitted so far, in order
    provider_cache, \* provider cache: the table, the lock, the clock
    threads      \* provider cache: the call each thread is in

\* The variables of the mover and those of the identification engine.
movervars == <<fs, dstDir, call, pc, sidecars, preflight, moved_files, details,
               errors, i, mf, acs, ret, result, hist>>

idvars == <<world, identifier, idres>>

taskvars == <<task, signals>>

cachevars == <<provider_cache, threads>>

vars == <<movervars, idvars, taskvars, cachevars>>

----------------------------------------------------------------------------
(* Bounds. *)

\* Largest " (n)" suffix a file already in the destination may carry.
MaxCounter == 1

----------------------------------------------------------------------------
(* Paths and files. *)

\* A path is directory / "base (s1) (s2)...ext": Path.parent, Path.stem
\* (base plus the conflict suffixes) and Path.suffix.
MkPath(dir, base, sfx, ext) == [dir |-> dir, base |-> base, sfx |-> sfx, ext |-> ext]

SUBTITLE_EXTENSIONS == {".srt"}

SIDECAR_EXTENSIONS == SUBTITLE_EXTENSIONS \cup {".nfo"}

\* The primary file of the media item and the destination planned for it.
Source == MkPath("src", "movie", <<>>, ".mkv")

Destination == MkPath("dst", "The Title", <<>>, ".mkv")

\* Path(p).parent, Path(p).stem, Path(p).suffix
Parent(p) == p.dir

Stem(p) == <<p.base, p.sfx>>

Suffix(p) == p.ext

\* Content of a file: where its bytes come from and its size in bytes.
Content(kind, of, size) == [kind |-> kind, of |-> of, size |-> size]

SourceContent(p) ==
    Content("source", p, CASE p.ext = ".mkv" -> 3 [] p.ext = ".srt" -> 2 [] OTHER -> 1)

OldContent(p) == Content("old", p, 1)

\* What a copy holds when it was cut short.
Truncated(c) == Content("partial", c.of, c.size - 1)

Exists(f, p) == p \in DOMAIN f

WriteFile(f, p, c) == [q \in DOMAIN f \cup {p} |-> IF q = p THEN c ELSE f[q]]

\* Path.unlink(missing_ok=True)
Unlink(f, p) == [q \in DOMAIN f \ {p} |-> f[q]]

\* os.replace that forgets to remove the source
ReplaceKeepingSource(f, s, d) == WriteFile(f, d, f[s])

\* os.replace(source, dest)
Replace(f, s, d) == WriteFile(Unlink(f, s), d, f[s])

\* shutil.copy2(source, dest) when it completes
Copy2(f, s, d) == WriteFile(f, d, f[s])

Range(s) == {s[k] : k \in 1..Len(s)}

----------------------------------------------------------------------------
(* Pure helpers of mover.py. *)

\* The files of the source's directory, other than the
\* source, that share its stem and carry a sidecar extension.
discover_sidecars(f, source) ==
    {p \in DOMAIN f : /\ p.dir = Parent(source)
                      /\ p # source
                      /\ Stem(p) = Stem(source)
                      /\ p.ext \in SIDECAR_EXTENSIONS}

\* the suffix formatted from counter + 1
SuffixedPathOffByOne(p, counter) == [p EXCEPT !.sfx = Append(@, counter + 1)]

\* f"{stem} ({counter}){suffix}" in the same directory
SuffixedPath(p, counter) == [p EXCEPT !.sfx = Append(@, counter)]

\* dest_parent / f"{dest_stem}{sidecar_ext}"
SidecarDest(destination, sidecar) ==
    MkPath(Parent(destination), destination.base, destination.sfx, Suffix(sidecar))

\* All orders in which iterdir may list a set of files.
Orders(S) == {s \in [1..Cardinality(S) -> S] : Range(s) = S}

\* buffer = 100 * 1024 * 1024
Buffer == 100 * 1024 * 1024

\* len(str(dest_path / name)): directory, separator, stem, suffix
NameLen(p) ==
    (CASE p.base = "movie" -> 5 [] p.base = "The Title" -> 9 [] OTHER -> 5)
    + 4 * Len(p.sfx) + 4

PathLen(dirLen, p) == dirLen + 1 + NameLen(p)

RECURSIVE TotalSize(_, _)
\* total_size += Path(src).stat().st_size, a file that cannot be stat'ed counts 0
TotalSize(f, source_paths) ==
    IF source_paths = <<>> THEN 0
    ELSE (IF Exists(f, Head(source_paths)) THEN f[Head(source_paths)].size ELSE 0)
         + TotalSize(f, Tail(source_paths))

\* What the environment answers to check_preflight: whether mkdir succeeds,
\* whether the directory is writable, the free bytes (-1: disk_usage raises)
\* and the length of the destination directory's path.
PreflightEnvs ==
    [mkdirOk : BOOLEAN, writable : BOOLEAN,
     free : {-1, Buffer + 3, Buffer + 6}, dirLen : {10, 245, 250}]

PathTooLong(dirLen, p) == PathLen(dirLen, p) > 255

\* check_preflight(source_paths, destination_dir): dir is whether the
\* destination directory exists afterwards.
check_preflight(f, dirExists, source_paths, env) ==
    IF ~dirExists /\ ~env.mkdirOk
    THEN [free_space_ok |-> TRUE, path_len_ok |-> TRUE, perms_ok |-> FALSE,
          errors |-> <<"Cannot create destination">>, dir |-> FALSE,
          dirLen |-> env.dirLen]
    ELSE LET perms == env.writable
             total == TotalSize(f, source_paths)
             space == ~(env.free # -1 /\ env.free < total + Buffer)
             plen  == \A k \in 1..Len(source_paths) :
                          ~PathTooLong(env.dirLen, source_paths[k])
         IN  [free_space_ok |-> space, path_len_ok |-> plen, perms_ok |-> perms,
              errors |-> (IF perms THEN <<>> ELSE <<"Destination is not writable">>)
                         \o (IF space THEN <<>> ELSE <<"Insufficient space">>)
                         \o (IF plen THEN <<>> ELSE <<"Path too long">>),
              dir |-> TRUE, dirLen |-> env.dirLen]

----------------------------------------------------------------------------
(* Values. *)

NoPath == MkPath("", "", <<>>, "")

NoCall == [op |-> "none", conflict_policy |-> "skip", dry_run |-> TRUE, path |-> NoPath]

NoFrame == [source |-> NoPath, dest |-> NoPath, action |-> "", volume |-> "", caller |-> ""]

NoAcs == [path |-> NoPath, counter |-> 0, caller |-> ""]

NoValue == [kind |-> "none"]

Raised == [kind |-> "raised"]

NoPreflight ==
    [free_space_ok |-> TRUE, path_len_ok |-> TRUE, perms_ok |-> TRUE,
     errors |-> <<>>, dir |-> FALSE, dirLen |-> 0]

EmptyDetails == [moved |-> <<>>, skipped |-> <<>>, replaced |-> <<>>, kept_both |-> <<>>]

MoveResult(success, det, errs, rollback_performed) ==
    [kind |-> "MoveResult", success |-> success, details |-> det, errors |-> errs,
     rollback_performed |-> rollback_performed]

Returned(success, action) == [kind |-> "tuple", success |-> success, action |-> action]

Policies == {"skip", "replace", "keep_both"}

\* No directory tree: the mover's runs identify nothing.
NoWorld == [kind |-> "none"]

\* No move task has been created.
TaskIdle ==
    /\ task = NoValue
    /\ signals = <<>>

\* No provider cache has been created.
CacheIdle ==
    /\ provider_cache = NoValue
    /\ threads = NoValue

----------------------------------------------------------------------------
(* Initial states: the filesystem before the first call. *)

SourceFiles == {Source} \cup {MkPath("src", "movie", <<>>, e) : e \in SIDECAR_EXTENSIONS}

\* A file of the source directory that is no sidecar of the source.
Unrelated == MkPath("src", "other", <<>>, ".srt")

\* Files the destination directory may hold before the call: the planned
\* names and the names an earlier conflict gave to the video.
DestFiles ==
    {MkPath("dst", "The Title", <<>>, e) : e \in {".mkv"} \cup SIDECAR_EXTENSIONS}
    \cup {MkPath("dst", "The Title", <<n>>, ".mkv") : n \in 1..MaxCounter}

InitialFs ==
    {[p \in S \cup D \cup {Unrelated} |->
         IF p.dir = "src" THEN SourceContent(p) ELSE OldContent(p)] :
     S \in SUBSET SourceFiles, D \in SUBSET DestFiles}

NoHist ==
    [fs0 |-> [p \in {} |-> 0], dir0 |-> FALSE, faults |-> {}, dry |-> NoValue,
     calls |-> 0]

Init ==
    /\ fs \in InitialFs
    /\ dstDir \in BOOLEAN
    /\ (\E p \in DOMAIN fs : p.dir = "dst") => dstDir
    /\ call = NoCall
    /\ pc = "idle"
    /\ sidecars = <<>>
    /\ preflight = NoPreflight
    /\ moved_files = <<>>
    /\ details = EmptyDetails
    /\ errors = <<>>
    /\ i = 0
    /\ mf = NoFrame
    /\ acs = NoAcs
    /\ ret = NoValue
    /\ result = NoValue
    /\ hist = [NoHist EXCEPT !.fs0 = fs, !.dir0 = dstDir]
    /\ world = NoWorld
    /\ identifier = NoValue
    /\ idres = NoValue
    /\ TaskIdle
    /\ CacheIdle

----------------------------------------------------------------------------
(* Calls.  One call runs at a time (spec section 5). *)

mwsLocals == <<sidecars, preflight, moved_files, details, errors, i>>

Fault(tag) == hist' = [hist EXCEPT !.faults = @ \cup {tag}]

\* A call starts: its locals are fresh and the history remembers the
\* filesystem it starts from.
StartCall(c, position, frame, acsFrame, h) ==
    /\ call' = c
    /\ pc' = position
    /\ mf' = frame
    /\ acs' = acsFrame
    /\ sidecars' = <<>>
    /\ preflight' = NoPreflight
    /\ moved_files' = <<>>
    /\ details' = EmptyDetails
    /\ errors' = <<>>
    /\ i' = 0
    /\ ret' = NoValue
    /\ result' = NoValue
    /\ hist' = h
    /\ UNCHANGED <<fs, dstDir>>

FirstCall == [hist EXCEPT !.calls = 1]

Position(op) ==
    CASE op = "mws" -> "discover" [] op = "mft" -> "mft_enter" [] OTHER -> "acs_loop"

TopFrame(op) ==
    IF op = "mft"
    THEN [NoFrame EXCEPT !.source = Source, !.dest = Destination, !.caller = "top"]
    ELSE NoFrame

\* move_with_sidecars(item, destination, conflict_policy, dry_run)
CallMoveWithSidecars ==
    /\ pc = "idle"
    /\ UNCHANGED <<idvars, taskvars, cachevars>>
    /\ \E policy \in Policies, dry \in BOOLEAN :
          StartCall([op |-> "mws", conflict_policy |-> policy, dry_run |-> dry,
                     path |-> Destination],
                    Position("mws"), TopFrame("mws"), NoAcs, FirstCall)

\* move_file_transactional(source, dest, conflict_policy, dry_run)
CallMoveFile ==
    /\ pc = "idle"
    /\ UNCHANGED <<idvars, taskvars, cachevars>>
    /\ \E policy \in Policies, dry \in BOOLEAN :
          StartCall([op |-> "mft", conflict_policy |-> policy, dry_run |-> dry,
                     path |-> Destination],
                    Position("mft"), TopFrame("mft"), NoAcs, FirstCall)

\* apply_conflict_suffix(dest_path)
CallApplyConflictSuffix ==
    /\ pc = "idle"
    /\ UNCHANGED <<idvars, taskvars, cachevars>>
    /\ \E p \in {Destination, SidecarDest(Destination, MkPath("src", "movie", <<>>, ".srt")),
                  SuffixedPath(Destination, 1)} :
          StartCall([op |-> "acs", conflict_policy |-> "keep_both", dry_run |-> FALSE,
                     path |-> p],
                    Position("acs"), NoFrame,
                    [path |-> p, counter |-> 1, caller |-> "top"], FirstCall)

\* What a dry run reported: the tuple of move_file_transactional, or the
\* success flag and the paths of each details list of move_with_sidecars.
Reported(r) ==
    IF r.kind = "MoveResult"
    THEN [kind |-> "MoveResult", success |-> r.success,
          moved |-> Range(r.details.moved), skipped |-> Range(r.details.skipped),
          replaced |-> Range(r.details.replaced),
          kept_both |-> Range(r.details.kept_both)]
    ELSE r

\* The round trip of spec section 8: after a dry run that reported success,
\* the same call is made live with identical arguments.
Replay ==
    /\ pc = "done"
    /\ UNCHANGED <<idvars, taskvars, cachevars>>
    /\ call.dry_run
    /\ hist.calls = 1
    /\ result.kind \in {"tuple", "MoveResult"}
    /\ result.success
    /\ StartCall([call EXCEPT !.dry_run = FALSE], Position(call.op), TopFrame(call.op),
                 NoAcs,
                 [fs0 |-> fs, dir0 |-> dstDir, faults |-> {},
                  dry |-> Reported(result), calls |-> 2])

----------------------------------------------------------------------------
(* apply_conflict_suffix: the while loop, one iteration per step. *)

ApplyConflictSuffixStep ==
    /\ pc = "acs_loop"
    /\ UNCHANGED <<idvars, taskvars, cachevars>>
    /\ LET new_path == SuffixedPath(acs.path, acs.counter)
       IN  IF ~Exists(fs, new_path)
           THEN /\ acs' = acs
                /\ IF acs.caller = "top"
                   THEN /\ result' = [kind |-> "path", path |-> new_path]
                        /\ pc' = "done"
                        /\ mf' = mf
                   ELSE /\ mf' = [mf EXCEPT !.dest = new_path, !.action = "kept_both"]
                        /\ pc' = "mft_mkdir"
                        /\ result' = result
           ELSE /\ acs' = [acs EXCEPT !.counter = @ + 1]
                /\ UNCHANGED <<pc, mf, result>>
    /\ UNCHANGED <<fs, dstDir, call, mwsLocals, ret, hist>>

----------------------------------------------------------------------------
(* move_file_transactional *)

\* return from move_file_transactional to its caller
MftReturn(r) ==
    /\ ret' = r
    /\ IF mf.caller = "top"
       THEN pc' = "done" /\ result' = r
       ELSE pc' = (IF mf.caller = "primary" THEN "primary_ret" ELSE "sidecar_ret")
            /\ result' = result

\* an exception leaves move_file_transactional
MftRaise ==
    /\ ret' = Raised
    /\ IF mf.caller = "top"
       THEN pc' = "done" /\ result' = Raised
       ELSE pc' = "mws_except" /\ result' = result

\* lines 158-183: dry run, source check, conflict policy.  Path.exists()
\* lets an OSError other than "not found" through (statRaises).
MftEnter ==
    /\ pc = "mft_enter"
    /\ UNCHANGED <<idvars, taskvars, cachevars>>
    /\ \E statRaises \in BOOLEAN :
         IF call.dry_run
         THEN /\ MftReturn(Returned(TRUE, "moved"))
              /\ UNCHANGED <<mf, acs, hist>>
         ELSE IF statRaises
         THEN /\ MftRaise
              /\ Fault("stat")
              /\ UNCHANGED <<mf, acs>>
         ELSE IF ~Exists(fs, mf.source)
         THEN /\ MftReturn(Returned(FALSE, "skipped"))
              /\ UNCHANGED <<mf, acs, hist>>
         ELSE IF Exists(fs, mf.dest) /\ call.conflict_policy = "skip"
         THEN /\ MftReturn(Returned(TRUE, "skipped"))
              /\ UNCHANGED <<mf, acs, hist>>
         ELSE IF Exists(fs, mf.dest) /\ call.conflict_policy = "keep_both"
         THEN /\ acs' = [path |-> mf.dest, counter |-> 1, caller |-> "mft"]
              /\ pc' = "acs_loop"
              /\ UNCHANGED <<mf, ret, result, hist>>
         ELSE /\ mf' = [mf EXCEPT !.action = IF Exists(fs, mf.dest) THEN "replaced"
                                                                  ELSE "moved"]
              /\ pc' = "mft_mkdir"
              /\ UNCHANGED <<acs, ret, result, hist>>
    /\ UNCHANGED <<fs, dstDir, call, mwsLocals>>

\* line 186: dest_path.parent.mkdir(parents=True, exist_ok=True), outside the try
MftMkdir ==
    /\ pc = "mft_mkdir"
    /\ UNCHANGED <<idvars, taskvars, cachevars>>
    /\ \E ok \in BOOLEAN :
         IF dstDir \/ ok
         THEN /\ dstDir' = TRUE
              /\ pc' = "mft_move"
              /\ UNCHANGED <<ret, result, hist>>
         ELSE /\ MftRaise
              /\ Fault("mkdir")
              /\ UNCHANGED dstDir
    /\ UNCHANGED <<fs, call, mwsLocals, mf, acs>>

\* Outcomes of os.replace and of shutil.copy2: done; copy2 returned but the
\* copy is short; raised leaving the destination as it was; raised after
\* the destination file was opened and partly written.
MoveOutcomes(same) ==
    IF same THEN {"ok", "error"} ELSE {"ok", "short", "error", "error_partial"}

\* lines 189-195: same_volume, then os.replace or shutil.copy2
MftMove ==
    /\ pc = "mft_move"
    /\ UNCHANGED <<idvars, taskvars, cachevars>>
    /\ \E same \in BOOLEAN : \E outcome \in MoveOutcomes(same) :
         /\ mf' = [mf EXCEPT !.volume = IF same THEN "same" ELSE "cross"]
         /\ IF same /\ outcome = "ok"
            THEN /\ fs' = Replace(fs, mf.source, mf.dest)
                 /\ MftReturn(Returned(TRUE, mf.action))
                 /\ UNCHANGED hist
            ELSE IF outcome = "ok"
            THEN /\ fs' = Copy2(fs, mf.source, mf.dest)
                 /\ pc' = "mft_verify"
                 /\ UNCHANGED <<ret, result, hist>>
            ELSE IF outcome = "short"
            THEN /\ fs' = WriteFile(fs, mf.dest, Truncated(fs[mf.source]))
                 /\ pc' = "mft_verify"
                 /\ Fault("short")
                 /\ UNCHANGED <<ret, result>>
            ELSE /\ fs' = IF outcome = "error_partial"
                           THEN WriteFile(fs, mf.dest, Truncated(fs[mf.source]))
                           ELSE fs
                 /\ pc' = "mft_except"
                 /\ Fault(IF same THEN "rename" ELSE "copy")
                 /\ UNCHANGED <<ret, result>>
    /\ UNCHANGED <<dstDir, call, mwsLocals, acs>>

\* a verification that accepts every copy
SizeMismatchNever(f, source, dest) == FALSE

\* src_size != dest_size
SizeMismatch(f, source, dest) == f[source].size # f[dest].size

\* lines 197-204: verify the size of the copy
MftVerify ==
    /\ pc = "mft_verify"
    /\ UNCHANGED <<idvars, taskvars, cachevars>>
    /\ IF SizeMismatch(fs, mf.source, mf.dest)
       THEN /\ fs' = Unlink(fs, mf.dest)
            /\ MftReturn(Returned(FALSE, "skipped"))
       ELSE /\ pc' = "mft_unlink"
            /\ UNCHANGED <<fs, ret, result>>
    /\ UNCHANGED <<dstDir, call, mwsLocals, mf, acs, hist>>

\* lines 206-210: source_path.unlink()
MftUnlinkSource ==
    /\ pc = "mft_unlink"
    /\ UNCHANGED <<idvars, taskvars, cachevars>>
    /\ \E ok \in BOOLEAN :
         IF ok
         THEN /\ fs' = Unlink(fs, mf.source)
              /\ MftReturn(Returned(TRUE, mf.action))
              /\ UNCHANGED hist
         ELSE /\ pc' = "mft_except"
              /\ Fault("unlink")
              /\ UNCHANGED <<fs, ret, result>>
    /\ UNCHANGED <<dstDir, call, mwsLocals, mf, acs>>

\* dest_path.exists() and not Path(source).exists()
CleanupPartial(f, source, dest) == Exists(f, dest) /\ ~Exists(f, source)

\* lines 211-216: the except clause
MftExcept ==
    /\ pc = "mft_except"
    /\ UNCHANGED <<idvars, taskvars, cachevars>>
    /\ fs' = IF CleanupPartial(fs, mf.source, mf.dest) THEN Unlink(fs, mf.dest) ELSE fs
    /\ MftReturn(Returned(FALSE, "skipped"))
    /\ UNCHANGED <<dstDir, call, mwsLocals, mf, acs, hist>>

----------------------------------------------------------------------------
(* move_with_sidecars *)

\* lines 230-236: discover_sidecars lists the source's directory (iterdir
\* may raise, and lists in any order), outside the try block.
MwsDiscover ==
    /\ pc = "discover"
    /\ UNCHANGED <<idvars, taskvars, cachevars>>
    /\ \E ok \in BOOLEAN :
         IF ok
         THEN /\ \E order \in Orders(discover_sidecars(fs, Source)) : sidecars' = order
              /\ pc' = "preflight"
              /\ UNCHANGED <<result, hist>>
         ELSE /\ result' = Raised
              /\ pc' = "done"
              /\ Fault("iterdir")
              /\ UNCHANGED sidecars
    /\ UNCHANGED <<fs, dstDir, call, preflight, moved_files, details, errors, i,
                   mf, acs, ret>>

\* a check that forgets perms_ok
PreflightPassedIgnoringPerms(r) == r.free_space_ok /\ r.path_len_ok

\* all([free_space_ok, path_len_ok, perms_ok])
PreflightPassed(r) == r.free_space_ok /\ r.path_len_ok /\ r.perms_ok

\* lines 238-249: preflight over the primary and the companions
MwsPreflight ==
    /\ pc = "preflight"
    /\ UNCHANGED <<idvars, taskvars, cachevars>>
    /\ \E env \in PreflightEnvs :
         LET r == check_preflight(fs, dstDir, <<Source>> \o sidecars, env)
         IN  /\ preflight' = r
             /\ dstDir' = r.dir
             /\ IF PreflightPassed(r)
                THEN /\ pc' = "primary"
                     /\ UNCHANGED result
                ELSE /\ pc' = "done"
                     /\ result' = MoveResult(FALSE, details, r.errors, FALSE)
    /\ UNCHANGED <<fs, call, sidecars, moved_files, details, errors, i, mf, acs,
                   ret, hist>>

\* line 253: move the main file
MwsMovePrimary ==
    /\ pc = "primary"
    /\ UNCHANGED <<idvars, taskvars, cachevars>>
    /\ mf' = [NoFrame EXCEPT !.source = Source, !.dest = call.path, !.caller = "primary"]
    /\ pc' = "mft_enter"
    /\ UNCHANGED <<fs, dstDir, call, mwsLocals, acs, ret, result, hist>>

\* details[action].append(path)
Record(det, action, path) == [det EXCEPT ![action] = Append(@, path)]

\* the primary's result is not looked at: the loop over the sidecars starts
\* whatever it was
MwsPrimaryReturnedUnchecked ==
    /\ pc = "primary_ret"
    /\ UNCHANGED <<idvars, taskvars, cachevars>>
    /\ i' = 1
    /\ pc' = "sidecars"
    /\ UNCHANGED <<fs, dstDir, call, sidecars, preflight, moved_files, details,
                   errors, mf, acs, ret, result, hist>>

\* lines 254-259
MwsPrimaryReturned ==
    /\ pc = "primary_ret"
    /\ UNCHANGED <<idvars, taskvars, cachevars>>
    /\ IF ret.success
       THEN /\ details' = Record(details, ret.action, call.path)
            /\ moved_files' = Append(moved_files, call.path)
            /\ i' = 1
            /\ pc' = "sidecars"
            /\ UNCHANGED <<errors, result>>
       ELSE /\ errors' = Append(errors, "Failed to move")
            /\ result' = MoveResult(FALSE, details, errors', FALSE)
            /\ pc' = "done"
            /\ UNCHANGED <<details, moved_files, i>>
    /\ UNCHANGED <<fs, dstDir, call, sidecars, preflight, mf, acs, ret, hist>>

\* lines 262-270 and 292: the loop over the sidecars
MwsMoveSidecar ==
    /\ pc = "sidecars"
    /\ UNCHANGED <<idvars, taskvars, cachevars>>
    /\ IF i <= Len(sidecars)
       THEN /\ mf' = [NoFrame EXCEPT !.source = sidecars[i],
                                     !.dest = SidecarDest(call.path, sidecars[i]),
                                     !.caller = "sidecar"]
            /\ pc' = "mft_enter"
            /\ UNCHANGED result
       ELSE /\ result' = MoveResult(TRUE, details, <<>>, FALSE)
            /\ pc' = "done"
            /\ UNCHANGED mf
    /\ UNCHANGED <<fs, dstDir, call, mwsLocals, acs, ret, hist>>

\* The paths the rollback loop unlinks.
RollbackTargets(moved) == Range(moved)

\* for moved in moved_files: Path(moved).unlink(missing_ok=True); an unlink
\* that raises (failed) is logged and the loop goes on.
Rollback(f, moved, failed) ==
    [q \in DOMAIN f \ (RollbackTargets(moved) \ failed) |-> f[q]]

\* lines 271-290
MwsSidecarReturned ==
    /\ pc = "sidecar_ret"
    /\ UNCHANGED <<idvars, taskvars, cachevars>>
    /\ IF ret.success
       THEN /\ details' = Record(details, ret.action, SidecarDest(call.path, sidecars[i]))
            /\ moved_files' = Append(moved_files, SidecarDest(call.path, sidecars[i]))
            /\ i' = i + 1
            /\ pc' = "sidecars"
            /\ UNCHANGED <<fs, errors, result, hist>>
       ELSE /\ \E failed \in SUBSET Range(moved_files) :
                 /\ fs' = IF call.dry_run THEN fs ELSE Rollback(fs, moved_files, failed)
                 /\ hist' = [hist EXCEPT !.faults =
                                 @ \cup (IF failed = {} THEN {} ELSE {"rollback"})]
            /\ errors' = Append(errors, "Failed to move sidecar, rolled back")
            /\ result' = MoveResult(FALSE, details, errors', TRUE)
            /\ pc' = "done"
            /\ UNCHANGED <<details, moved_files, i>>
    /\ UNCHANGED <<dstDir, call, sidecars, preflight, mf, acs, ret>>

\* lines 294-310: an exception inside the try block
MwsExcept ==
    /\ pc = "mws_except"
    /\ UNCHANGED <<idvars, taskvars, cachevars>>
    /\ \E failed \in SUBSET Range(moved_files) :
         /\ fs' = IF call.dry_run THEN fs ELSE Rollback(fs, moved_files, failed)
         /\ hist' = [hist EXCEPT !.faults =
                         @ \cup (IF failed = {} THEN {} ELSE {"rollback"})]
    /\ errors' = Append(errors, "Unexpected error")
    /\ result' = MoveResult(FALSE, details, errors', TRUE)
    /\ pc' = "done"
    /\ UNCHANGED <<dstDir, call, sidecars, preflight, moved_files, details, i, mf,
                   acs, ret>>

----------------------------------------------------------------------------

Next ==
    \/ CallMoveWithSidecars
    \/ CallMoveFile
    \/ CallApplyConflictSuffix
    \/ Replay
    \/ ApplyConflictSuffixStep
    \/ MftEnter
    \/ MftMkdir
    \/ MftMove
    \/ MftVerify
    \/ MftUnlinkSource
    \/ MftExcept
    \/ MwsDiscover
    \/ MwsPreflight
    \/ MwsMovePrimary
    \/ MwsPrimaryReturned
    \/ MwsMoveSidecar
    \/ MwsSidecarReturned
    \/ MwsExcept

Spec == Init /\ [][Next]_vars

\* A call that has started keeps running: the code has no blocking step.
FairSpec == Spec /\ WF_vars(Next)

----------------------------------------------------------------------------
(* Vocabulary of the properties. *)

Done(op) == pc = "done" /\ call.op = op

Live == ~call.dry_run

\* The destination planned for each discovered companion.
CompanionDests == {SidecarDest(Destination, sc) : sc \in Range(sidecars)}

\* The last move_file_transactional call did not succeed.
LastMoveFailed == ret.kind = "raised" \/ (ret.kind = "tuple" /\ ~ret.success)

\* Where the bytes a source file held at call start are now (the set is
\* empty when they are nowhere).
Whereabouts(sc) ==
    {p \in DOMAIN fs : sc \in DOMAIN hist.fs0 /\ fs[p] = hist.fs0[sc]}

----------------------------------------------------------------------------
(* C1: when, in a live move_with_sidecars call whose destination paths were
   all free, the primary was moved and a companion's move then failed, the
   call returns success=False and rollback_performed=True, and no file is
   left at the primary's destination nor at any companion's destination,
   the failed companion's included.  (Stated for the runs in which every
   deletion of the rollback itself went through.) *)
C1_RollbackLeavesDestinationsEmpty ==
    ( /\ Done("mws") /\ Live
      /\ \A p \in {Destination} \cup CompanionDests : ~Exists(hist.fs0, p)
      /\ Len(moved_files) >= 1
      /\ LastMoveFailed
      /\ "rollback" \notin hist.faults )
    => /\ result.kind = "MoveResult"
       /\ ~result.success
       /\ result.rollback_performed
       /\ \A p \in {Destination} \cup CompanionDests : ~Exists(fs, p)

(* C2: after a live move_with_sidecars call that ends with
   rollback_performed=True the filesystem is back in its pre-operation
   state: the primary and every companion are at their source paths with
   their original content and every destination path holds what it held
   before the call.  (Stated for the calls whose destination paths were all
   free and in which every deletion of the rollback went through.) *)
C2_RollbackRestoresPreOperationState ==
    ( /\ Done("mws") /\ Live
      /\ result.kind = "MoveResult"
      /\ result.rollback_performed
      /\ \A p \in DOMAIN hist.fs0 : p.dir # "dst"
      /\ "rollback" \notin hist.faults )
    => /\ \A sc \in {Source} \cup Range(sidecars) :
             Exists(hist.fs0, sc) => Exists(fs, sc) /\ fs[sc] = hist.fs0[sc]
       /\ \A p \in (DOMAIN fs \cup DOMAIN hist.fs0) :
             p.dir = "dst" =>
                /\ Exists(fs, p) <=> Exists(hist.fs0, p)
                /\ Exists(fs, p) => fs[p] = hist.fs0[p]

(* C3: a move_with_sidecars call with dry_run=True leaves the filesystem
   unchanged: no file and no directory is created, renamed, overwritten or
   deleted, whatever the conflict policy and whether or not the destination
   directory or destination files exist. *)
C3_DryRunLeavesFilesystemUnchanged ==
    (call.op = "mws" /\ call.dry_run) => (fs = hist.fs0 /\ dstDir = hist.dir0)

(* C4: a dry run predicts the live run: from the same filesystem and with
   the same arguments, move_file_transactional returns the same (success,
   action) dry and live, and move_with_sidecars reports the same
   destination paths under the same detail categories.  (Stated for an
   existing source and live runs in which no filesystem call failed.) *)
C4_DryRunPredictsLiveRun ==
    ( /\ pc = "done" /\ Live
      /\ hist.calls = 2
      /\ Exists(hist.fs0, Source)
      /\ hist.faults = {} )
    => Reported(result) = hist.dry

(* C9: after a successful live move_with_sidecars call every companion that
   was moved lies in the directory of the primary and carries the stem of
   the file the primary ended up as, followed by its own extension, for
   every conflict policy.  (Stated for the calls that moved the primary.) *)
C9_CompanionsFollowThePrimary ==
    ( /\ Done("mws") /\ Live
      /\ result.kind = "MoveResult"
      /\ result.success
      /\ ~Exists(fs, Source) )
    => \A sc \in Range(sidecars) : \A q \in Whereabouts(sc) :
          q.dir = "dst" =>
             \E p \in Whereabouts(Source) :
                 /\ Parent(q) = Parent(p)
                 /\ Stem(q) = Stem(p)
                 /\ Suffix(q) = Suffix(sc)

(* C5: when check_preflight reports free_space_ok, perms_ok or path_len_ok
   False, move_with_sidecars returns at once with success=False, a
   non-empty errors list and rollback_performed=False, and no source or
   destination file was moved, copied, overwritten or deleted. *)
C5_PreflightFailureTouchesNoFile ==
    ( /\ call.op = "mws"
      /\ preflight.dirLen # 0
      /\ ~(preflight.free_space_ok /\ preflight.perms_ok /\ preflight.path_len_ok) )
    => /\ pc = "done"
       /\ result.kind = "MoveResult"
       /\ ~result.success
       /\ Len(result.errors) > 0
       /\ ~result.rollback_performed
       /\ fs = hist.fs0

\* A live call with companions and an occupied destination was stopped by
\* preflight.
C5_Witness ==
    /\ Done("mws") /\ Live
    /\ ~preflight.perms_ok
    /\ Len(sidecars) = 2
    /\ Exists(fs, Destination)

(* C6: in a live cross-volume move_file_transactional call the source is
   deleted only when a copy of the same size as the source is at the
   destination; when the sizes differ the call returns failure, the copy is
   removed from the destination and the source stays in place, unchanged. *)
C6_SourceDeletedOnlyAfterVerifiedCopy ==
    [][ /\ ( /\ mf'.volume = "cross"
             /\ Exists(fs, mf'.source)
             /\ ~Exists(fs', mf'.source) )
           => /\ Exists(fs, mf'.dest)
              /\ fs[mf'.dest].size = fs[mf'.source].size
        /\ ( /\ pc = "mft_verify"
             /\ fs[mf.source].size # fs[mf.dest].size )
           => /\ ret' = Returned(FALSE, "skipped")
              /\ pc' # "mft_unlink"
              /\ ~Exists(fs', mf.dest)
              /\ Exists(fs', mf.source)
              /\ fs'[mf.source] = fs[mf.source] ]_vars

\* A cross-volume call whose copy came out short has returned.
C6_Witness ==
    /\ Done("mft") /\ Live
    /\ mf.volume = "cross"
    /\ "short" \in hist.faults
    /\ result = Returned(FALSE, "skipped")

\* The name apply_conflict_suffix is to give: the first free "stem (n)ext".
FirstFreeName(f, p) ==
    LET name(n) == [p EXCEPT !.sfx = Append(@, n)]
        n0 == CHOOSE n \in 1..(Cardinality(DOMAIN f) + 1) :
                  /\ ~Exists(f, name(n))
                  /\ \A k \in 1..(n - 1) : Exists(f, name(k))
    IN  name(n0)

(* C7: in a live move_file_transactional call whose destination exists the
   conflict policy decides the outcome: skip returns (True, "skipped") and
   leaves source and destination unchanged; replace returns (True,
   "replaced"), the destination holds the source's content and the source
   is gone; keep_both returns (True, "kept_both"), the existing destination
   is unchanged and the source's content is at the name apply_conflict_suffix
   gives, the source gone.  (Stated for an existing source and a call in
   which no filesystem operation failed.) *)
C7_ConflictPolicyDecidesOutcome ==
    ( /\ Done("mft") /\ Live
      /\ Exists(hist.fs0, Source)
      /\ Exists(hist.fs0, Destination)
      /\ hist.faults = {} )
    => LET f0 == hist.fs0
           others(S) == \A p \in (DOMAIN fs \cup DOMAIN f0) \ S :
                            Exists(fs, p) /\ Exists(f0, p) /\ fs[p] = f0[p]
       IN CASE call.conflict_policy = "skip" ->
                 /\ result = Returned(TRUE, "skipped")
                 /\ fs = f0
            [] call.conflict_policy = "replace" ->
                 /\ result = Returned(TRUE, "replaced")
                 /\ ~Exists(fs, Source)
                 /\ Exists(fs, Destination)
                 /\ fs[Destination] = f0[Source]
                 /\ others({Source, Destination})
            [] call.conflict_policy = "keep_both" ->
                 /\ result = Returned(TRUE, "kept_both")
                 /\ ~Exists(fs, Source)
                 /\ Exists(fs, Destination)
                 /\ fs[Destination] = f0[Destination]
                 /\ Exists(fs, FirstFreeName(f0, Destination))
                 /\ fs[FirstFreeName(f0, Destination)] = f0[Source]
                 /\ others({Source, FirstFreeName(f0, Destination)})

\* keep_both found "The Title.mkv" and "The Title (1).mkv" taken and put the
\* source at "The Title (2).mkv".
C7_Witness ==
    /\ Done("mft") /\ Live
    /\ call.conflict_policy = "keep_both"
    /\ hist.faults = {}
    /\ Exists(hist.fs0, Source)
    /\ Exists(hist.fs0, Destination)
    /\ Exists(hist.fs0, [Destination EXCEPT !.sfx = <<1>>])
    /\ Exists(fs, [Destination EXCEPT !.sfx = <<MaxCounter + 1>>])
    /\ result = Returned(TRUE, "kept_both")

(* C8: apply_conflict_suffix(p) returns, in p's directory, the name
   "stem (n)ext" with n the smallest integer >= 1 for which no file of that
   name exists; the returned path never names an existing file; and the
   search terminates. *)
C8_ConflictSuffixIsSmallestFree ==
    /\ [][ (pc = "acs_loop" /\ pc' # "acs_loop") =>
             LET r == IF acs.caller = "top" THEN result'.path ELSE mf'.dest
                 name(n) == [acs.path EXCEPT !.sfx = Append(@, n)]
             IN  /\ ~Exists(fs, r)
                 /\ \E n \in 1..(Cardinality(DOMAIN fs) + 1) :
                       /\ r = name(n)
                       /\ \A k \in 1..(n - 1) : Exists(fs, name(k)) ]_vars
    /\ (pc = "acs_loop") ~> (pc # "acs_loop")

\* apply_conflict_suffix returned "stem (2)ext" because "stem (1)ext" was
\* taken.
C8_Witness ==
    /\ Done("acs")
    /\ Exists(fs, [call.path EXCEPT !.sfx = Append(@, 1)])
    /\ result = [kind |-> "path", path |-> [call.path EXCEPT !.sfx = Append(@, 2)]]

\* Positions inside move_file_transactional and apply_conflict_suffix.
MftPositions ==
    {"mft_enter", "acs_loop", "mft_mkdir", "mft_move", "mft_verify", "mft_unlink",
     "mft_except"}

\* The phase of the relocation state machine (spec section 4.4) a
\* move_with_sidecars call is in.
Phase ==
    CASE pc \in {"discover", "preflight"} -> "Preflighting"
      [] pc \in {"primary", "primary_ret"} -> "MovingPrimary"
      [] pc \in {"sidecars", "sidecar_ret"} -> "MovingCompanions"
      [] pc \in MftPositions \cup {"mws_except"} ->
            IF mf.caller = "primary" THEN "MovingPrimary" ELSE "MovingCompanions"
      [] pc = "done" /\ result.kind = "raised" -> "Raised"
      [] pc = "done" /\ result.success -> "Succeeded"
      [] pc = "done" /\ result.rollback_performed -> "RolledBack"
      [] OTHER -> "Failed"

PhaseSteps ==
    {<<"Preflighting", "Preflighting">>, <<"Preflighting", "MovingPrimary">>,
     <<"Preflighting", "Failed">>, <<"Preflighting", "Raised">>,
     <<"MovingPrimary", "MovingPrimary">>, <<"MovingPrimary", "MovingCompanions">>,
     <<"MovingPrimary", "Failed">>, <<"MovingPrimary", "RolledBack">>,
     <<"MovingCompanions", "MovingCompanions">>, <<"MovingCompanions", "Succeeded">>,
     <<"MovingCompanions", "RolledBack">>}

(* C10: every move_with_sidecars call runs its phases in the order
   Preflighting, MovingPrimary, MovingCompanions and terminates: no file is
   moved before preflight has passed, no companion move is attempted before
   the primary move has succeeded, a call that fails after the primary was
   moved ends rolled back (success=False, rollback_performed=True), and
   success=True is reported only when the primary move and every companion
   move succeeded. *)
C10_PhasesInOrderAndTerminates ==
    /\ [][ (call.op = "mws" /\ call' = call /\ pc # "done")
             => <<Phase, Phase'>> \in PhaseSteps ]_vars
    /\ [](call.op = "mws" =>
            /\ fs # hist.fs0 =>
                  /\ preflight.dirLen # 0
                  /\ preflight.free_space_ok /\ preflight.perms_ok
                  /\ preflight.path_len_ok
                  /\ Phase # "Preflighting"
            /\ (pc \in MftPositions /\ mf.caller = "sidecar") =>
                  /\ Len(moved_files) >= 1
                  /\ moved_files[1] = Destination
            /\ (pc = "done" /\ result.kind = "MoveResult" /\ ~result.success
                   /\ Len(moved_files) >= 1) =>
                  result.rollback_performed
            /\ (pc = "done" /\ result.kind = "MoveResult" /\ result.success) =>
                  /\ hist.faults = {}
                  /\ ret.kind = "tuple" /\ ret.success
                  /\ moved_files = <<Destination>> \o
                        [k \in 1..Len(sidecars) |-> SidecarDest(Destination, sidecars[k])])
    /\ (call.op = "mws" /\ pc # "done") ~> (pc = "done")

\* The second of two companions failed after the primary and the first
\* companion had been moved, and the call ended rolled back.
C10_Witness ==
    /\ Done("mws") /\ Live
    /\ Len(sidecars) = 2
    /\ Len(moved_files) = 2
    /\ result.kind = "MoveResult"
    /\ ~result.success
    /\ result.rollback_performed

(* C11: move_with_sidecars never raises: whichever filesystem operation
   fails (the directory listing of companion discovery, stat, mkdir, rename,
   copy, delete) the call returns a MoveResult, and an exception raised
   after preflight ends in success=False with rollback_performed=True. *)
C11_MoveWithSidecarsNeverRaises ==
    Done("mws") =>
       /\ result.kind = "MoveResult"
       /\ (hist.faults \cap {"stat", "mkdir"} # {}) =>
              (~result.success /\ result.rollback_performed)

(* C12: if preflight passes inside move_with_sidecars, every destination
   path the call then writes to (the primary's destination and each
   companion's destination, built from the destination's base name and the
   companion's extension) is at most 255 characters long. *)
C12_WrittenDestinationsWithinPathLimit ==
    ( /\ call.op = "mws" /\ Live
      /\ preflight.dirLen # 0
      /\ preflight.free_space_ok /\ preflight.perms_ok /\ preflight.path_len_ok )
    => \A p \in {Destination} \cup CompanionDests :
          ( Exists(fs, p) /\ (Exists(hist.fs0, p) => fs[p] # hist.fs0[p]) )
             => PathLen(preflight.dirLen, p) <= 255

----------------------------------------------------------------------------
(* C28: a live move_with_sidecars call deletes at a destination only files
   that this same call put there: a file that existed at a destination path
   before the call and was left in place (policy skip, or policy keep_both,
   where the incoming file gets a suffixed name) still exists with its
   original content when the call returns, also when a later companion move
   failed and rollback ran. *)
C28_ExistingDestinationFilesSurvive ==
    ( /\ Done("mws") /\ Live
      /\ result.kind = "MoveResult"
      /\ call.conflict_policy \in {"skip", "keep_both"} )
    => \A p \in DOMAIN hist.fs0 :
          p.dir = "dst" => Exists(fs, p) /\ fs[p] = hist.fs0[p]

----------------------------------------------------------------------------
(* C30: when a live move_file_transactional call fails because the rename,
   the copy or the deletion of the source raised an error, it returns
   (False, "skipped"), the source file is still present with its content,
   and no file created by this call (a partial or a complete copy) remains
   at the destination: the destination directory holds what it held before
   the call. *)
C30_FailedMoveLeavesNoCopy ==
    ( /\ Done("mft") /\ Live
      /\ hist.faults \cap {"rename", "copy", "unlink"} # {} )
    => /\ result = Returned(FALSE, "skipped")
       /\ Exists(fs, Source) /\ fs[Source] = hist.fs0[Source]
       /\ \A p \in DOMAIN fs :
             p.dir = "dst" => Exists(hist.fs0, p) /\ fs[p] = hist.fs0[p]

----------------------------------------------------------------------------
(* The identification engine: names.

   A file or folder name is the sequence of the tokens the patterns of
   patterns.py tell apart: plain words, an episode marker "S01E02" or
   "S01E02-E04", a date "2020-01-15", a year "(1999)" or "1999", a part
   "Part 2", a season "Season 01".  The fields a, b, c of a token carry its
   numbers; b = -1 or c = -1 says that the group did not match. *)

Tok(t, w, a, b, c) == [t |-> t, w |-> w, a |-> a, b |-> b, c |-> c]

Word(w) == Tok("word", w, 0, 0, 0)

\* "S<season>E<ep1>" and, with ep2 # -1, "S<season>E<ep1>-E<ep2>"
EpisodeMarker(season, ep1, ep2) == Tok("SxxEyy", "", season, ep1, ep2)

\* "<season>x<ep1>" and, with ep2 # -1, "<season>x<ep1>-<ep2>"
XMarker(season, ep1, ep2) == Tok("NxM", "", season, ep1, ep2)

DateTok(year, month, day) == Tok("date", "", year, month, day)

YearTok(year, paren) == Tok(IF paren THEN "(year)" ELSE "year", "", year, 0, 0)

\* a standalone year joined to the token before it by "-" or "_", as in
\* "S05E06-1976"
YearAfterMarker(year) == Tok("year", "", year, 1, 0)

PartTok(n) == Tok("part", "", n, 0, 0)

\* "Season <n>" or "S<n>" standing alone
SeasonTok(n) == Tok("season", "", n, 0, 0)

\* Python's None and a value that is present.
None == <<>>

Some(x) == <<x>>

\* Python's truth value of an optional integer: None and 0 are false.
Truthy(o) == o # None /\ o[1] # 0

\* a or b
Or(a, b) == IF Truthy(a) THEN a ELSE b

\* Index of the first token of the name whose kind is in kinds, 0 if none:
\* pattern.search finds the leftmost match.
First(name, kinds) ==
    IF \E k \in 1..Len(name) : name[k].t \in kinds
    THEN CHOOSE k \in 1..Len(name) :
            /\ name[k].t \in kinds
            /\ \A j \in 1..(k - 1) : name[j].t \notin kinds
    ELSE 0

EpisodeMatch(season, episodes) == [season |-> season, episodes |-> episodes]

\* Index of the match of the first of EPISODE_PATTERNS that matches: a
\* marker "SxxEyy" anywhere in the name, else a marker "NxM"; 0 if none.
EpisodeMarkerAt(filename) ==
    IF First(filename, {"SxxEyy"}) # 0 THEN First(filename, {"SxxEyy"})
    ELSE First(filename, {"NxM"})

\* a version that returns the two ends of a range instead of the range
extract_episode_info_ends(filename) ==
    LET k == EpisodeMarkerAt(filename)
    IN  IF k = 0 THEN None
        ELSE Some(EpisodeMatch(filename[k].a,
                    IF filename[k].c = -1 THEN <<filename[k].b>>
                    ELSE <<filename[k].b, filename[k].c>>))

\* a version that counts a range down from its end
extract_episode_info_down(filename) ==
    LET k == EpisodeMarkerAt(filename)
    IN  IF k = 0 THEN None
        ELSE LET ep1 == filename[k].b
                 ep2 == filename[k].c
             IN  Some(EpisodeMatch(filename[k].a,
                        IF ep2 = -1 THEN <<ep1>>
                        ELSE IF ep2 > ep1
                             THEN [n \in 1..(ep2 - ep1 + 1) |-> ep2 - n + 1]
                             ELSE <<ep1, ep2>>))

\* extract_episode_info(filename)
extract_episode_info(filename) ==
    LET k == EpisodeMarkerAt(filename)
    IN  IF k = 0 THEN None
        ELSE LET ep1 == filename[k].b
                 ep2 == filename[k].c
             IN  Some(EpisodeMatch(filename[k].a,
                        IF ep2 = -1 THEN <<ep1>>
                        ELSE IF ep2 > ep1
                             THEN [n \in 1..(ep2 - ep1 + 1) |-> ep1 + n - 1]
                             ELSE <<ep1, ep2>>))

\* extract_date(filename): the date as "YYYY-MM-DD"
extract_date(filename) ==
    LET k == First(filename, {"date"})
    IN  IF k = 0 THEN None
        ELSE Some(<<filename[k].a, filename[k].b, filename[k].c>>)

\* The year of the first parenthesised 4-digit number, if it is in range.
ParenYear(name) ==
    LET k == First(name, {"(year)"})
    IN  IF k # 0 /\ 1900 <= name[k].a /\ name[k].a <= 2040
        THEN Some(name[k].a) ELSE None

\* standalone_pattern.finditer(filename): the 4-digit numbers 19xx / 20xx
\* between separators, which are the standalone years and the year
\* components of the dates.
YearCandidate(name, k) ==
    /\ name[k].t \in {"year", "date"}
    /\ 1900 <= name[k].a /\ name[k].a <= 2099

\* The candidate lies in a window that also holds a date: it is the year
\* of the date, or the date follows it directly.
InDateContext(name, k) ==
    \/ name[k].t = "date"
    \/ k < Len(name) /\ name[k + 1].t = "date"

\* The candidate directly follows an episode marker and "-" or "_".
AfterEpisodeMarker(name, k) ==
    /\ name[k].t = "year" /\ name[k].b = 1
    /\ k > 1 /\ name[k - 1].t \in {"SxxEyy", "NxM"}

\* a version without the date check
StandaloneYearOfDates(name) ==
    LET ok(k) == /\ YearCandidate(name, k)
                 /\ ~AfterEpisodeMarker(name, k)
                 /\ 1900 <= name[k].a /\ name[k].a <= 2040
    IN  IF \E k \in 1..Len(name) : ok(k)
        THEN Some(name[CHOOSE k \in 1..Len(name) :
                          ok(k) /\ \A j \in 1..(k - 1) : ~ok(j)].a)
        ELSE None

\* The first standalone candidate that is not skipped and is in 1900..2040.
StandaloneYear(name) ==
    LET ok(k) == /\ YearCandidate(name, k)
                 /\ ~InDateContext(name, k)
                 /\ ~AfterEpisodeMarker(name, k)
                 /\ 1900 <= name[k].a /\ name[k].a <= 2040
    IN  IF \E k \in 1..Len(name) : ok(k)
        THEN Some(name[CHOOSE k \in 1..Len(name) :
                          ok(k) /\ \A j \in 1..(k - 1) : ~ok(j)].a)
        ELSE None

\* extract_year(filename): the parenthesised year first, then a standalone
\* one, each validated to 1900..2040
extract_year(name) ==
    IF ParenYear(name) # None THEN ParenYear(name) ELSE StandaloneYear(name)

\* extract_part(filename)
extract_part(filename) ==
    LET k == First(filename, {"part"})
    IN  IF k = 0 THEN None ELSE Some(filename[k].a)

\* extract_season_from_folder(folder_name)
extract_season_from_folder(folder_name) ==
    LET k == First(folder_name, {"season"})
    IN  IF k = 0 THEN None ELSE Some(folder_name[k].a)

\* clean_title(title): the words that are left when the markers, dates,
\* years and parts are removed
clean_title(name) ==
    LET words == SelectSeq(name, LAMBDA tok : tok.t = "word")
    IN  [k \in 1..Len(words) |-> words[k].w]

\* str.lower() of the words the names are made of
Lower(w) ==
    CASE w = "Episode" -> "episode"
      [] w = "Film" -> "film"
      [] w = "Show" -> "show"
      [] w = "Subs" -> "subs"
      [] w = "Sub" -> "sub"
      [] w = "Subtitles" -> "subtitles"
      [] w = "Extras" -> "extras"
      [] OTHER -> w

movie_keywords == {"episode", "invalid date"}

\* any(keyword in filename_lower for keyword in movie_keywords)
has_movie_keyword(filename) ==
    \E k \in 1..Len(filename) :
        filename[k].t = "word" /\ Lower(filename[k].w) \in movie_keywords

----------------------------------------------------------------------------
(* The identification engine: sidecar files and the directory. *)

\* int(text) of the numbers the sidecars carry; any other text raises
\* ValueError, which parse_nfo suppresses, and the field stays None.
ParseInt(text) ==
    CASE text = "0" -> Some(0)
      [] text = "1" -> Some(1)
      [] text = "2" -> Some(2)
      [] text = "1999" -> Some(1999)
      [] text = "2525" -> Some(2525)
      [] OTHER -> None

\* normalize_imdb_id(imdb_id): ensure the tt prefix
normalize_imdb_id(imdb_id) ==
    CASE imdb_id = "0133093" -> "tt0133093"
      [] OTHER -> imdb_id

\* The text of an .nfo file: whether it is well-formed XML and the text of
\* its <title>, <year>, <imdbid>, <season> and <episode> elements.
NfoText(wellformed, title, year, imdbid, season, episode) ==
    [wellformed |-> wellformed, title |-> title, year |-> year, imdbid |-> imdbid,
     season |-> season, episode |-> episode]

NFOData(title, year, imdb_id, tmdb_id, season, episode) ==
    [title |-> title, year |-> year, imdb_id |-> imdb_id, tmdb_id |-> tmdb_id,
     season |-> season, episode |-> episode]

\* parse_nfo(nfo_path): None for a file that does not parse
parse_nfo(text) ==
    IF ~text.wellformed THEN None
    ELSE Some(NFOData(
            text.title,
            IF text.year = None THEN None ELSE ParseInt(text.year[1]),
            IF text.imdbid = None THEN None ELSE Some(normalize_imdb_id(text.imdbid[1])),
            None,
            IF text.season = None THEN None ELSE ParseInt(text.season[1]),
            IF text.episode = None THEN None ELSE ParseInt(text.episode[1])))

\* An entry of the directory: a file "stem.ext" or a subdirectory.
Entry(stem, ext, is_dir) == [stem |-> stem, ext |-> ext, is_dir |-> is_dir]

File(stem, ext) == Entry(stem, ext, FALSE)

Dir(name) == Entry(name, "", TRUE)

\* video.with_suffix(".nfo")
with_suffix(video, ext) == File(video.stem, ext)

\* The first of the names for which a file exists in the directory.
RECURSIVE FirstExisting(_, _)
FirstExisting(listing, names) ==
    IF names = <<>> THEN None
    ELSE IF File(<<Word(Head(names))>>, ".nfo") \in listing
         THEN Some(File(<<Word(Head(names))>>, ".nfo"))
         ELSE FirstExisting(listing, Tail(names))

\* the directory-level names find_nfo_for_file tries, in order
DirectoryNfoNames == <<"movie", "tvshow">>

\* a lookup that tries the directory-level names before the same-name file
find_nfo_directory_first(listing, video) ==
    IF FirstExisting(listing, DirectoryNfoNames) # None
    THEN FirstExisting(listing, DirectoryNfoNames)
    ELSE IF with_suffix(video, ".nfo") \in listing
         THEN Some(with_suffix(video, ".nfo"))
         ELSE None

\* find_nfo_for_file(video_path)
find_nfo_for_file(listing, video) ==
    IF with_suffix(video, ".nfo") \in listing
    THEN Some(with_suffix(video, ".nfo"))
    ELSE FirstExisting(listing, DirectoryNfoNames)

media_extensions == {".mkv", ".mp4", ".avi", ".mov", ".wmv", ".flv", ".webm", ".m4v"}

----------------------------------------------------------------------------
(* The identification engine: the Identifier and its helpers.

   The world is one directory: world.parent_folder and world.folder_name
   are the names of its parent and of itself, world.listing its entries,
   world.nfo the text of its .nfo files and world.duration what ffprobe
   reports for each media file in seconds (None: no result).  A file path
   is given by the entry of the file. *)

\* str(path.parent): the key of the per-directory caches
DirKey(w) == <<w.parent_folder, w.folder_name>>

EmptyCache == [k \in {} |-> FALSE]

\* cache[key] = value
Memo(cache, key, value) == [k \in DOMAIN cache \cup {key} |-> IF k = key THEN value ELSE cache[k]]

\* Identifier(config=config, skip_duration=skip_duration)
Identifier(movies_always_in_own_directory, minimum_movie_duration_minutes, skip_duration) ==
    [kind |-> "Identifier",
     movies_always_in_own_directory |-> movies_always_in_own_directory,
     minimum_movie_duration_minutes |-> minimum_movie_duration_minutes,
     skip_duration |-> skip_duration,
     duration_cache |-> EmptyCache,
     show_folder_cache |-> EmptyCache,
     only_media_file_cache |-> EmptyCache]

\* self._should_check_duration()
should_check_duration(self) ==
    IF self.skip_duration THEN FALSE ELSE self.minimum_movie_duration_minutes > 0

\* self._should_check_directory_constraints()
should_check_directory_constraints(self) == self.movies_always_in_own_directory

\* self._get_video_duration_minutes(file_path): the cached value, else
\* ffprobe's seconds / 60.0, None when ffprobe gives nothing
get_video_duration_minutes(self, w, file_path) ==
    IF file_path \in DOMAIN self.duration_cache
    THEN self.duration_cache[file_path]
    ELSE IF w.duration[file_path] = None THEN None
         ELSE Some(w.duration[file_path][1] \div 60)

\* self._is_in_show_folder(file_path): the cached value, else whether the
\* directory is a season folder, holds a season subdirectory or holds two
\* media files
is_in_show_folder(self, w, file_path) ==
    IF DirKey(w) \in DOMAIN self.show_folder_cache
    THEN self.show_folder_cache[DirKey(w)]
    ELSE \/ Truthy(extract_season_from_folder(w.folder_name))
         \/ \E item \in w.listing :
               item.is_dir /\ Truthy(extract_season_from_folder(item.stem))
         \/ Cardinality({item \in w.listing :
                           ~item.is_dir /\ item.ext \in media_extensions}) >= 2

\* self._is_only_media_file_in_directory(file_path): the cached value, else
\* whether no other media file lies in the directory
is_only_media_file_in_directory(self, w, file_path) ==
    IF DirKey(w) \in DOMAIN self.only_media_file_cache
    THEN self.only_media_file_cache[DirKey(w)]
    ELSE ~\E item \in w.listing :
            ~item.is_dir /\ item # file_path /\ item.ext \in media_extensions

subtitle_exts == {".srt", ".ass", ".vtt"}

image_exts == {".jpg", ".png", ".jpeg"}

\* str(item) of a file found in the directory itself (dir = <<>>) or in the
\* folders dir below it
Companion(dir, file) == [dir |-> dir, file |-> file]

\* parent_dir / "Subs", when it exists and is a directory: the entry the
\* file system finds under that name
SubsDir(w) ==
    {item \in w.listing :
        /\ item.is_dir
        /\ \/ item.stem = <<Word("Subs")>>
           \/ /\ w.case_insensitive
              /\ Len(item.stem) = 1 /\ item.stem[1].t = "word"
              /\ Lower(item.stem[1].w) = "subs"}

\* self._discover_companion_files(file_path): the subtitle and image files
\* of the directory, then the subtitle files lying directly in "Subs"
discover_companion_files(w, file_path) ==
    LET own == {Companion(<<>>, item) :
                  item \in {x \in w.listing :
                              ~x.is_dir /\ x.ext \in subtitle_exts \cup image_exts}}
        subs == UNION {{Companion(<<d.stem>>, item) :
                          item \in {x \in w.subdirs[d.stem].files : x.ext \in subtitle_exts}} :
                       d \in SubsDir(w)}
    IN  (CHOOSE order \in Orders(own) : TRUE) \o (CHOOSE order \in Orders(subs) : TRUE)

MediaItem(kind, source_path, title, year, season, episodes, part, date, companions, nfo) ==
    [kind |-> kind, source_path |-> source_path, title |-> title, year |-> year,
     season |-> season, episodes |-> episodes, part |-> part, date |-> date,
     sidecars |-> companions, nfo |-> nfo]

IdentificationResult(item, reasons, errs) ==
    [kind |-> "IdentificationResult", item |-> item, reasons |-> reasons, errors |-> errs]

\* nfo={}
EmptyDict == [k \in {} |-> ""]

\* The ids of the sidecar that go into the record's nfo dictionary.
NfoDict(nfo_data) ==
    IF nfo_data = None \/ nfo_data[1].imdb_id = None THEN EmptyDict
    ELSE [k \in {"imdbid"} |-> nfo_data[1].imdb_id[1]]

\* an unknown record that keeps the year of the filename
UnknownItemKeepingYear(file_path) ==
    MediaItem("unknown", file_path, Some(clean_title(file_path.stem)),
              extract_year(file_path.stem), None, None, None, None, <<>>, EmptyDict)

\* MediaItem(kind="unknown", source_path=file_path, title=clean_title(filename), nfo={})
UnknownItem(file_path) ==
    MediaItem("unknown", file_path, Some(clean_title(file_path.stem)), None, None, None,
              None, None, <<>>, EmptyDict)

generic_dirs ==
    {"source", "sources", "tv", "movies", "movie", "video", "videos", "media",
     "downloads", "download", "incoming", "complete"}

\* folder_name.lower() in generic_dirs
Generic(name) ==
    Len(name) = 1 /\ name[1].t = "word" /\ Lower(name[1].w) \in generic_dirs

\* extract_title_before_episode(filename): the part before the first episode
\* marker, else before the first date
extract_title_before_episode(filename) ==
    LET k == IF EpisodeMarkerAt(filename) # 0 THEN EpisodeMarkerAt(filename)
             ELSE First(filename, {"date"})
    IN  IF k = 0 THEN filename ELSE SubSeq(filename, 1, k - 1)

\* self._identify_episode(...): the record and the reasons it adds
identify_episode(w, file_path, episode_info, date_info, nfo_data) ==
    LET filename == file_path.stem
        folder_name == w.folder_name
        parent_folder == w.parent_folder
        nfo_title == nfo_data # None /\ nfo_data[1].title # None
        parent_clean == clean_title(parent_folder)
        folder_clean == clean_title(folder_name)
        file_clean == clean_title(extract_title_before_episode(filename))
        is_season_dir == extract_season_from_folder(folder_name) # None
        title ==
            IF nfo_title THEN nfo_data[1].title[1]
            ELSE IF is_season_dir /\ parent_clean # <<>> /\ ~Generic(parent_folder)
                 THEN parent_clean
            ELSE IF folder_clean # <<>> /\ ~Generic(folder_name) THEN folder_clean
            ELSE IF parent_clean # <<>> /\ ~Generic(parent_folder) THEN parent_clean
            ELSE file_clean
        nfo_season == nfo_data # None /\ nfo_data[1].season # None
        season ==
            IF episode_info # None THEN Some(episode_info[1].season)
            ELSE IF nfo_season THEN nfo_data[1].season
            ELSE extract_season_from_folder(folder_name)
        episodes ==
            IF episode_info # None THEN Some(episode_info[1].episodes)
            ELSE IF nfo_season /\ nfo_data[1].episode # None
                 THEN Some(<<nfo_data[1].episode[1]>>)
            ELSE None
        part == extract_part(filename)
        folder_year == Or(extract_year(parent_folder), extract_year(folder_name))
        year ==
            IF nfo_data # None /\ Truthy(nfo_data[1].year) THEN nfo_data[1].year
            ELSE IF ~Truthy(folder_year) /\ parent_folder = <<>>
                 THEN extract_year(filename)
                 ELSE folder_year
    IN  [item |-> MediaItem("episode", file_path, Some(title), year, season, episodes,
                            part, IF date_info # None THEN date_info ELSE None,
                            <<>>, NfoDict(nfo_data)),
         reasons |->
            <<IF nfo_title THEN "Show title from NFO"
              ELSE IF \/ is_season_dir /\ parent_clean # <<>> /\ ~Generic(parent_folder)
                      \/ folder_clean # <<>> /\ ~Generic(folder_name)
                      \/ parent_clean # <<>> /\ ~Generic(parent_folder)
                   THEN "Show title from folder structure"
                   ELSE "Show title from filename">>
            \o (IF episode_info # None THEN <<"Parsed episode">>
                ELSE IF nfo_season THEN <<"Season/episode from NFO">>
                ELSE IF Truthy(season) THEN <<"Season from folder">> ELSE <<>>)
            \o (IF Truthy(part) THEN <<"Multipart episode">> ELSE <<>>)
            \o (IF ~(nfo_data # None /\ Truthy(nfo_data[1].year)) /\ Truthy(year)
                THEN <<"Year parsed from folder">> ELSE <<>>)
            \o (IF NfoDict(nfo_data) # EmptyDict THEN <<"IMDB ID from NFO">> ELSE <<>>)]

\* self._identify_movie(file_path, filename, nfo_data, reasons): the record
\* and the reasons it adds
identify_movie(w, file_path, nfo_data) ==
    LET filename == file_path.stem
        nfo_title == nfo_data # None /\ nfo_data[1].title # None
        year == IF nfo_title THEN nfo_data[1].year ELSE extract_year(filename)
        title == IF nfo_title THEN nfo_data[1].title[1] ELSE clean_title(filename)
        part == extract_part(filename)
        companions == discover_companion_files(w, file_path)
    IN  [item |-> MediaItem("movie", file_path, Some(title), year, None, None, part,
                            None, companions, NfoDict(nfo_data)),
         reasons |->
            (IF nfo_title THEN <<"Movie title and year from NFO">>
             ELSE <<"Movie title from filename">>
                  \o (IF Truthy(year) THEN <<"Year parsed from filename">> ELSE <<>>))
            \o (IF Truthy(part) THEN <<"Multipart movie">> ELSE <<>>)
            \o (IF companions # <<>> THEN <<"Found companion files">> ELSE <<>>)
            \o (IF NfoDict(nfo_data) # EmptyDict THEN <<"IMDB ID from NFO">> ELSE <<>>)]

\* What the exception that leaves a call looks like to the caller.
RaisedError(error) == [kind |-> "raised", error |-> error]

\* How each movie sub-branch of identify treats a duration below the
\* minimum: it returns unknown, it keeps the movie, or it does not look.
DurationRule(branch) ==
    CASE branch \in {"year_or_part", "default"} -> "downgrade"
      [] branch = "nfo_title" -> "keep"
      [] branch \in {"nfo_id", "keyword"} -> "unchecked"

\* The reason a movie sub-branch adds last when no constraint was violated.
Satisfied(branch, needs_directory_check) ==
    CASE branch = "nfo_id" ->
            IF needs_directory_check
            THEN <<"NFO with TMDB/IMDB ID and directory constraints satisfied">> ELSE <<>>
      [] branch \in {"year_or_part", "nfo_title"} ->
            IF needs_directory_check
            THEN <<"Directory constraints and duration satisfied">> ELSE <<>>
      [] branch = "keyword" ->
            IF needs_directory_check
            THEN <<"Movie keyword detected and directory constraints satisfied">>
            ELSE <<"Movie keyword detected">>
      [] branch = "default" ->
            IF needs_directory_check
            THEN <<"No episode pattern - defaulting to movie and directory constraints satisfied">>
            ELSE <<"No episode pattern - defaulting to movie">>

\* The sub-branch of the movie classification a file falls into.
MovieBranch(filename, folder_name, nfo_data) ==
    IF nfo_data # None
       /\ (nfo_data[1].tmdb_id # None \/ nfo_data[1].imdb_id # None)
       /\ ~Truthy(nfo_data[1].season)
    THEN "nfo_id"
    ELSE IF \/ Truthy(Or(extract_year(filename), extract_year(folder_name)))
            \/ Truthy(extract_part(filename))
            \/ (nfo_data # None /\ Truthy(nfo_data[1].year))
         THEN "year_or_part"
    ELSE IF nfo_data # None /\ nfo_data[1].title # None THEN "nfo_title"
    ELSE IF has_movie_keyword(filename) THEN "keyword"
    ELSE "default"

\* Identifier.identify(file_path): what the call returns or raises (ret),
\* the branch it took, and which helpers it consulted (probed: the duration
\* probe; listed: 0 none, 1 _is_in_show_folder, 2 also
\* _is_only_media_file_in_directory).
identify(self, w, file_path) ==
    LET filename == file_path.stem
        nfo_path == find_nfo_for_file(w.listing, file_path)
        nfo_data == IF nfo_path = None THEN None ELSE parse_nfo(w.nfo)
        reasons == IF nfo_path # None /\ nfo_data # None THEN <<"Found NFO file">> ELSE <<>>
        errs == IF nfo_path # None /\ nfo_data = None THEN <<"Failed to parse NFO">> ELSE <<>>
        episode_info == extract_episode_info(filename)
        season == Or(extract_season_from_folder(w.folder_name),
                     extract_season_from_folder(w.parent_folder))
        date_info == extract_date(filename)
        branch == MovieBranch(filename, w.folder_name, nfo_data)
        rule == DurationRule(branch)
        needs_duration_check == branch # "nfo_id" /\ should_check_duration(self)
        needs_directory_check ==
            IF branch = "nfo_id" THEN self.movies_always_in_own_directory
            ELSE should_check_directory_constraints(self)
        duration_minutes ==
            IF needs_duration_check THEN get_video_duration_minutes(self, w, file_path)
            ELSE None
        short == /\ rule # "unchecked"
                 /\ duration_minutes # None
                 /\ duration_minutes[1] < self.minimum_movie_duration_minutes
        in_show == needs_directory_check /\ is_in_show_folder(self, w, file_path)
        not_alone == /\ needs_directory_check /\ ~in_show
                     /\ ~is_only_media_file_in_directory(self, w, file_path)
        listed == IF ~needs_directory_check THEN 0 ELSE IF in_show THEN 1 ELSE 2
        movie == identify_movie(w, file_path, nfo_data)
        episode == identify_episode(w, file_path, episode_info, date_info, nfo_data)
        Unknown(why) ==
            IdentificationResult(UnknownItem(file_path), reasons \o why, errs)
        Movie(before, after) ==
            IdentificationResult(movie.item, reasons \o before \o movie.reasons \o after, errs)
    IN  IF episode_info = None /\ Truthy(season)
        THEN \* extract_episode_info(filename, known_season=season)
             [ret |-> RaisedError("TypeError"), branch |-> "known_season",
              probed |-> FALSE, listed |-> 0]
        ELSE IF \/ episode_info # None \/ date_info # None
                \/ (nfo_data # None /\ nfo_data[1].season # None)
        THEN [ret |-> IdentificationResult(episode.item, reasons \o episode.reasons, errs),
              branch |-> "episode", probed |-> FALSE, listed |-> 0]
        ELSE [ret |->
                IF in_show
                THEN Unknown(<<"File in show folder - cannot be movie">>)
                ELSE IF not_alone
                THEN Unknown(<<"Directory contains multiple media files - cannot be movie">>)
                ELSE IF short /\ rule = "downgrade"
                THEN Unknown(<<"Duration below minimum - not a movie",
                               "Short duration - classified as unknown">>)
                ELSE IF short
                THEN Movie(<<"Duration below minimum - not a movie">>,
                           <<"Short duration despite NFO title">>)
                ELSE Movie(<<>>,
                           (IF rule # "unchecked" /\ duration_minutes # None
                            THEN <<"Duration meets minimum">> ELSE <<>>)
                           \o Satisfied(branch, needs_directory_check)),
              branch |-> branch, probed |-> needs_duration_check, listed |-> listed]

----------------------------------------------------------------------------
(* The identification engine: the directories and the calls. *)

FileNames ==
    {<<Word("movie")>>,
     <<Word("Show"), EpisodeMarker(1, 2, -1)>>,
     <<Word("Show"), DateTok(2020, 1, 15)>>,
     <<Word("Film"), YearTok(1999, TRUE)>>,
     <<Word("Film"), PartTok(2)>>,
     <<Word("Episode")>>}

FolderNames ==
    {<<Word("Film"), YearTok(2010, TRUE)>>, <<SeasonTok(1)>>, <<SeasonTok(0)>>,
     <<Word("movies")>>}

ParentNames == {<<Word("Show")>>, <<SeasonTok(1)>>}

OtherMedia == File(<<Word("other")>>, ".mkv")

\* What else may lie in the directory: another media file or a season folder.
Siblings == {{}, {OtherMedia}, {Dir(<<SeasonTok(2)>>)}, {Dir(<<SeasonTok(0)>>)}}

\* The .nfo files a directory may hold for a video.
NfoFiles(filename) ==
    {File(filename, ".nfo")}
    \cup {File(<<Word(n)>>, ".nfo") : n \in {"movie", "tvshow", "show"}}

TitleOnly == NfoText(TRUE, Some(<<"The", "Matrix">>), None, None, None, None)

NfoTexts ==
    {NfoText(FALSE, None, None, None, None, None),
     TitleOnly,
     NfoText(TRUE, Some(<<"The", "Matrix">>), Some("2525"), None, None, None),
     NfoText(TRUE, None, Some("1999"), None, None, None),
     NfoText(TRUE, None, None, Some("0133093"), None, None),
     NfoText(TRUE, None, None, None, Some("1"), None),
     NfoText(TRUE, None, None, None, Some("1"), Some("2"))}

\* What ffprobe reports for the video, in seconds.
Durations == {None, Some(1800), Some(3600)}

\* The contents of a subdirectory: its files, and the files of the folders
\* nested in it.
Tree(files, dirs) == [files |-> files, dirs |-> dirs]

NoDirs == [n \in {} |-> {}]

EmptyTree == Tree({}, NoDirs)

NoSubdirs == [n \in {} |-> EmptyTree]

World(filename, folder_name, parent_folder, siblings, nfos, nfo, d, subdirs, case_insensitive) ==
    [kind |-> "world",
     case_insensitive |-> case_insensitive,
     subdirs |-> [n \in {x.stem : x \in {y \in siblings : y.is_dir}} |->
                    IF n \in DOMAIN subdirs THEN subdirs[n] ELSE EmptyTree],
     parent_folder |-> parent_folder,
     folder_name |-> folder_name,
     video |-> File(filename, ".mkv"),
     listing |-> {File(filename, ".mkv")} \cup siblings \cup nfos,
     nfo |-> nfo,
     duration |-> [f \in {File(filename, ".mkv"), OtherMedia} |->
                      IF f = OtherMedia THEN Some(5400) ELSE d]]

\* The subtitle, image and other files that may lie next to a movie.
CompanionFiles ==
    {File(<<Word("poster")>>, ".jpg"), File(<<Word("Film")>>, ".srt"),
     File(<<Word("notes")>>, ".txt")}

\* The names a folder nested in the movie's directory may have.
SubFolderNames == {"Subs", "subs", "Sub", "Subtitles", "Extras"}

\* What such a folder may hold: a subtitle, a subtitle and an image, or a
\* subtitle one folder further down.
Trees ==
    {Tree({File(<<Word("en")>>, ".srt")}, NoDirs),
     Tree({File(<<Word("en")>>, ".srt"), File(<<Word("cover")>>, ".jpg")}, NoDirs),
     Tree({}, [n \in {<<Word("English")>>} |-> {File(<<Word("en")>>, ".srt")}])}

\* A movie in its own directory with companions and one nested folder, on a
\* file system that compares names with or without case.
CompanionWorlds ==
    UNION {{World(<<Word("Film"), YearTok(1999, TRUE)>>, <<Word("Film"), YearTok(2010, TRUE)>>,
                  <<Word("Show")>>, extras \cup {Dir(<<Word(n)>>)}, {}, TitleOnly, None,
                  [k \in {<<Word(n)>>} |-> t], ci) :
               extras \in SUBSET CompanionFiles, t \in Trees, ci \in BOOLEAN} :
           n \in SubFolderNames}
    \cup {World(<<Word("Film"), YearTok(1999, TRUE)>>, <<Word("Film"), YearTok(2010, TRUE)>>,
                <<Word("Show")>>, extras, {}, TitleOnly, None, NoSubdirs, FALSE) :
             extras \in SUBSET CompanionFiles}

\* The largest episode number of the markers.
MaxEpisode == 3

\* The markers "S<a>E<b>", "S<a>E<b>-E<c>", "<a>x<b>" and "<a>x<b>-<c>".
Markers ==
    {EpisodeMarker(a, b, c) : a \in 1..2, b \in 0..MaxEpisode, c \in (-1)..MaxEpisode}
    \cup {XMarker(a, b, c) : a \in 1..2, b \in 0..MaxEpisode, c \in (-1)..MaxEpisode}

\* Names that carry a marker, and one that carries a marker of each pattern.
MarkerNames ==
    {<<Word("Show"), mk>> : mk \in Markers}
    \cup {<<Word("Show"), XMarker(1, 3, -1), EpisodeMarker(2, 1, 2)>>}

\* Names that carry dates and years: "Show 2020-01-15", "2020-01-15",
\* "Show 1999 2020-01-15", "2020-01-15 1999", "Show (1999) 2020-01-15",
\* "Show S05E06-1976", "Show S05E06 1976", "Show 2041", "Show 2050 1999",
\* "Show (2050) 1999".
YearNames ==
    {<<Word("Show"), DateTok(y, 1, 15)>> : y \in {1850, 1900, 1999, 2040, 2041}}
    \cup {<<DateTok(2020, 1, 15)>>,
          <<Word("Show"), YearTok(1999, FALSE), DateTok(2020, 1, 15)>>,
          <<DateTok(2020, 1, 15), YearTok(1999, FALSE)>>,
          <<Word("Show"), YearTok(1999, TRUE), DateTok(2020, 1, 15)>>,
          <<Word("Show"), EpisodeMarker(5, 6, -1), YearAfterMarker(1976)>>,
          <<Word("Show"), EpisodeMarker(5, 6, -1), YearTok(1976, FALSE)>>,
          <<Word("Show"), YearTok(2041, FALSE)>>,
          <<Word("Show"), YearTok(2050, FALSE), YearTok(1999, FALSE)>>,
          <<Word("Show"), YearTok(2050, TRUE), YearTok(1999, FALSE)>>}

\* A file with such a name in a plain directory.
PatternWorlds ==
    {World(n, <<Word("movies")>>, <<Word("Show")>>, {}, {}, TitleOnly, None, NoSubdirs, FALSE) :
        n \in MarkerNames \cup YearNames}

\* scanner.VIDEO_EXTENSIONS: the files the scanner hands to identification
VIDEO_EXTENSIONS ==
    {".mkv", ".mp4", ".avi", ".mov", ".wmv", ".flv", ".m4v", ".mpg", ".mpeg", ".webm", ".ts"}

\* A video the scanner accepts and whose extension is none of the
\* identifier's media_extensions.
OtherVideo == File(<<Word("other")>>, ".mpg")

\* The directory with OtherVideo added to it.
WithOtherVideo(w) ==
    [w EXCEPT !.listing = @ \cup {OtherVideo},
              !.duration = [f \in DOMAIN w.duration \cup {OtherVideo} |->
                              IF f = OtherVideo THEN Some(5400) ELSE w.duration[f]]]

\* A movie and a second video in one directory.
SharedWorlds ==
    {WithOtherVideo(World(n, f, <<Word("Show")>>, {}, {}, TitleOnly, d, NoSubdirs, FALSE)) :
        n \in {<<Word("movie")>>, <<Word("Film"), YearTok(1999, TRUE)>>},
        f \in {<<Word("Film"), YearTok(2010, TRUE)>>, <<Word("movies")>>},
        d \in Durations}

\* The directories of the model: every combination of names, siblings,
\* duration and same-name sidecar, and every set of .nfo files next to an
\* otherwise plain video.
Worlds ==
    {World(n, f, p, sib, {}, TitleOnly, d, NoSubdirs, FALSE) :
        n \in FileNames, f \in FolderNames, p \in ParentNames, sib \in Siblings,
        d \in Durations}
    \cup UNION {{World(n, f, p, sib, {File(n, ".nfo")}, t, d, NoSubdirs, FALSE) :
                    n \in FileNames, f \in FolderNames, p \in ParentNames,
                    sib \in Siblings} :
                t \in NfoTexts, d \in Durations}
    \cup UNION {{World(n, <<Word("Film"), YearTok(2010, TRUE)>>, <<Word("Show")>>, {},
                       nfos, TitleOnly, None, NoSubdirs, FALSE) :
                    nfos \in SUBSET NfoFiles(n)} :
                n \in {<<Word("movie")>>, <<Word("Film"), YearTok(1999, TRUE)>>}}
    \cup CompanionWorlds
    \cup PatternWorlds
    \cup SharedWorlds

\* The media files of the directory.
MediaFiles(w) == {item \in w.listing : ~item.is_dir /\ item.ext \in media_extensions}

\* The files of the directory that the scanner reports as videos.
VideoFiles(w) == {item \in w.listing : ~item.is_dir /\ item.ext \in VIDEO_EXTENSIONS}

\* The mover is idle while files are identified.
MoverIdle ==
    /\ fs = NoHist.fs0
    /\ dstDir = FALSE
    /\ call = NoCall
    /\ pc = "idle"
    /\ sidecars = <<>>
    /\ preflight = NoPreflight
    /\ moved_files = <<>>
    /\ details = EmptyDetails
    /\ errors = <<>>
    /\ i = 0
    /\ mf = NoFrame
    /\ acs = NoAcs
    /\ ret = NoValue
    /\ result = NoValue
    /\ hist = NoHist

IdInit ==
    /\ MoverIdle
    /\ world \in Worlds
    /\ identifier = NoValue
    /\ idres = NoValue
    /\ TaskIdle
    /\ CacheIdle

\* The values of the two options and of skip_duration.
Configs == [movies_always_in_own_directory : BOOLEAN,
            minimum_movie_duration_minutes : {0, 60},
            skip_duration : BOOLEAN]

\* identifier = Identifier(config=config, skip_duration=...)
NewIdentifier ==
    /\ identifier = NoValue
    /\ \E c \in Configs :
          identifier' = Identifier(c.movies_always_in_own_directory,
                                   c.minimum_movie_duration_minutes, c.skip_duration)
    /\ UNCHANGED <<movervars, world, idres, taskvars, cachevars>>

\* identifier.identify(file_path): the result, and the caches filled by the
\* helpers the call consulted
Identify ==
    /\ identifier # NoValue
    /\ \E file_path \in VideoFiles(world) :
          LET r == identify(identifier, world, file_path)
          IN  /\ idres' = [kind |-> "identify", path |-> file_path,
                           branch |-> r.branch, ret |-> r.ret]
              /\ identifier' =
                    [identifier EXCEPT
                       !.duration_cache =
                          IF r.probed
                          THEN Memo(@, file_path,
                                    get_video_duration_minutes(identifier, world, file_path))
                          ELSE @,
                       !.show_folder_cache =
                          IF r.listed >= 1
                          THEN Memo(@, DirKey(world),
                                    is_in_show_folder(identifier, world, file_path))
                          ELSE @,
                       !.only_media_file_cache =
                          IF r.listed = 2
                          THEN Memo(@, DirKey(world),
                                    is_only_media_file_in_directory(identifier, world, file_path))
                          ELSE @]
    /\ UNCHANGED <<movervars, world, taskvars, cachevars>>

\* find_nfo_for_file(video_path), called on its own
CallFindNfo ==
    /\ identifier = NoValue
    /\ \E video \in MediaFiles(world) :
          idres' = [kind |-> "find_nfo_for_file", path |-> video,
                    ret |-> find_nfo_for_file(world.listing, video)]
    /\ UNCHANGED <<movervars, world, identifier, taskvars, cachevars>>

\* extract_episode_info(filename), called on its own
CallExtractEpisodeInfo ==
    /\ identifier = NoValue
    /\ \E video \in MediaFiles(world) :
          idres' = [kind |-> "extract_episode_info", path |-> video,
                    ret |-> extract_episode_info(video.stem)]
    /\ UNCHANGED <<movervars, world, identifier, taskvars, cachevars>>

\* extract_year(filename), called on its own
CallExtractYear ==
    /\ identifier = NoValue
    /\ \E video \in MediaFiles(world) :
          idres' = [kind |-> "extract_year", path |-> video,
                    ret |-> extract_year(video.stem)]
    /\ UNCHANGED <<movervars, world, identifier, taskvars, cachevars>>

IdNext ==
    \/ NewIdentifier
    \/ Identify
    \/ CallFindNfo
    \/ CallExtractEpisodeInfo
    \/ CallExtractYear

IdSpec == IdInit /\ [][IdNext]_vars

----------------------------------------------------------------------------
(* Vocabulary of the identification properties. *)

\* identify was called and returned a result.
Identified == idres.kind = "identify" /\ idres.ret.kind = "IdentificationResult"

\* The record of the result.
Item == idres.ret.item

(* C13: Identifier.identify returns an IdentificationResult and never
   raises, for every combination of filename (with or without an episode
   marker or date), folder names (season-named or not, generic or not) and
   sidecar (absent, malformed, or valid with any subset of fields). *)
C13_IdentifyNeverRaises ==
    idres.kind = "identify" => idres.ret.kind = "IdentificationResult"

(* C14: every record identify returns with kind=episode has either both a
   season and a non-empty episode list, or a date, whichever signal opened
   the episode branch (filename episode marker, filename date, or a sidecar
   that carries a season). *)
C14_EpisodeHasSeasonAndEpisodesOrDate ==
    (Identified /\ Item.kind = "episode") =>
       \/ /\ Item.season # None
          /\ Item.episodes # None
          /\ Item.episodes[1] # <<>>
       \/ Item.date # None

(* C15: every record identify returns with kind=movie has season, episode
   list and date absent, and every record with kind=unknown has year,
   season, episode list, part, date, metadata map and companion list all
   empty, so that only the source path and the title are set. *)
C15_MovieAndUnknownRecordsCarryNoEpisodeFields ==
    Identified =>
       /\ Item.kind = "movie" =>
             /\ Item.season = None
             /\ Item.episodes = None
             /\ Item.date = None
       /\ Item.kind = "unknown" =>
             /\ Item.year = None
             /\ Item.season = None
             /\ Item.episodes = None
             /\ Item.part = None
             /\ Item.date = None
             /\ DOMAIN Item.nfo = {}
             /\ Item.sidecars = <<>>
             /\ Item.source_path = idres.path
             /\ Item.title # None

\* A file with a year in its name and a sidecar was classified unknown.
C15_Witness ==
    /\ Identified
    /\ Item.kind = "unknown"
    /\ extract_year(idres.path.stem) # None
    /\ find_nfo_for_file(world.listing, idres.path) # None

(* C16: the year of every record identify returns is either absent or
   within 1900..2040, whichever source supplied it: the filename, a folder
   name, or the sidecar's year field. *)
C16_YearAbsentOrInRange ==
    Identified =>
       \/ Item.year = None
       \/ (1900 <= Item.year[1] /\ Item.year[1] <= 2040)

\* What the sidecar of the identified file parses to, None without one.
SidecarOf(file_path) ==
    IF find_nfo_for_file(world.listing, file_path) = None THEN None
    ELSE parse_nfo(world.nfo)

\* The file has no episode marker, no date and no sidecar season.
NoEpisodeSignal(file_path) ==
    /\ extract_episode_info(file_path.stem) = None
    /\ extract_date(file_path.stem) = None
    /\ (SidecarOf(file_path) = None \/ SidecarOf(file_path)[1].season = None)

\* Directory isolation and minimum duration are both switched off.
ConstraintsOff ==
    /\ ~identifier.movies_always_in_own_directory
    /\ ~(identifier.minimum_movie_duration_minutes > 0 /\ ~identifier.skip_duration)

\* The reasons that name a violated constraint.
DirectoryReasons ==
    {"File in show folder - cannot be movie",
     "Directory contains multiple media files - cannot be movie"}

DurationReasons == {"Duration below minimum - not a movie"}

(* C17: with directory isolation and minimum duration both disabled,
   identify never returns kind=unknown: a file with no episode marker, no
   date and no sidecar season is classified as movie whatever else is known
   about it; and every record with kind=unknown comes with a reason naming
   the constraint that was violated. *)
C17_UnknownOnlyByConstraint ==
    idres.kind = "identify" =>
       /\ ConstraintsOff => ~(Identified /\ Item.kind = "unknown")
       /\ (ConstraintsOff /\ NoEpisodeSignal(idres.path)) =>
             (Identified /\ Item.kind = "movie")
       /\ (Identified /\ Item.kind = "unknown") =>
             \E k \in 1..Len(idres.ret.reasons) :
                idres.ret.reasons[k] \in DirectoryReasons \cup DurationReasons

\* The directory of the file is a season folder, holds a season-named
\* subfolder, or holds another media file.
NotItsOwnDirectory(file_path) ==
    \/ extract_season_from_folder(world.folder_name) # None
    \/ \E item \in world.listing :
          item.is_dir /\ extract_season_from_folder(item.stem) # None
    \/ \E item \in MediaFiles(world) : item # file_path

(* C18: with the directory-isolation option enabled, identify never returns
   kind=movie for a file whose directory is a season folder, contains a
   season-named subfolder, or contains another media file: in every movie
   sub-branch it returns kind=unknown and records a reason explaining the
   downgrade.  (Stated for the calls that return.) *)
C18_IsolationNeverMovieInSharedDirectory ==
    ( /\ Identified
      /\ identifier.movies_always_in_own_directory
      /\ NotItsOwnDirectory(idres.path) )
    => /\ Item.kind # "movie"
       /\ Item.kind = "unknown" =>
             \E k \in 1..Len(idres.ret.reasons) :
                idres.ret.reasons[k] \in DirectoryReasons

MovieBranches == {"nfo_id", "year_or_part", "nfo_title", "keyword", "default"}

\* The duration probe gave a value for the file that is below the minimum.
ProbedShort(file_path) ==
    /\ world.duration[file_path] # None
    /\ world.duration[file_path][1] \div 60 < identifier.minimum_movie_duration_minutes

(* C19: with the minimum-duration constraint enabled and no directory
   constraint violated, a file that reaches the movie branch is classified
   unknown if and only if the duration probe returned a value strictly
   below the threshold; a value equal to or above it, or no value, leaves
   it kind=movie.  This holds in every movie sub-branch: sidecar
   identifier, year or part, sidecar title, keyword, default. *)
C19_UnknownIffProbedShort ==
    ( /\ Identified
      /\ idres.branch \in MovieBranches
      /\ identifier.minimum_movie_duration_minutes > 0 /\ ~identifier.skip_duration
      /\ ~(identifier.movies_always_in_own_directory /\ NotItsOwnDirectory(idres.path)) )
    => /\ Item.kind \in {"movie", "unknown"}
       /\ Item.kind = "unknown" <=> ProbedShort(idres.path)

\* The directory-level sidecar of the given name.
DirectoryNfo(name) == File(<<Word(name)>>, ".nfo")

\* The first of the candidate files that exists in the directory.
RECURSIVE FirstOf(_)
FirstOf(candidates) ==
    IF candidates = <<>> THEN None
    ELSE IF Head(candidates) \in world.listing THEN Some(Head(candidates))
    ELSE FirstOf(Tail(candidates))

(* C20: the sidecar lookup for a media file returns the .nfo file with the
   identical base name when one exists; otherwise the first existing of the
   directory-level files movie.nfo, tvshow.nfo, show.nfo, in that order;
   otherwise nothing. *)
C20_LookupSameNameThenMovieTvshowShow ==
    idres.kind = "find_nfo_for_file" =>
       idres.ret = FirstOf(<<with_suffix(idres.path, ".nfo"), DirectoryNfo("movie"),
                             DirectoryNfo("tvshow"), DirectoryNfo("show")>>)

(* C20, amended: the sidecar lookup returns the .nfo file with the
   identical base name when one exists; otherwise the first existing of
   movie.nfo and tvshow.nfo, in that order; otherwise nothing.  A file
   show.nfo is not looked for. *)
C20_LookupSameNameThenMovieTvshow ==
    idres.kind = "find_nfo_for_file" =>
       idres.ret = FirstOf(<<with_suffix(idres.path, ".nfo"), DirectoryNfo("movie"),
                             DirectoryNfo("tvshow")>>)

\* With no same-name sidecar and movie.nfo, tvshow.nfo and show.nfo all in
\* the directory, the lookup returned movie.nfo.
C20_Witness ==
    /\ idres.kind = "find_nfo_for_file"
    /\ with_suffix(idres.path, ".nfo") \notin world.listing
    /\ {DirectoryNfo("movie"), DirectoryNfo("tvshow"), DirectoryNfo("show")}
          \subseteq world.listing
    /\ idres.ret = Some(DirectoryNfo("movie"))

----------------------------------------------------------------------------
(* Companion files of a movie. *)

\* the folder names the companion search is said to recognise, in lower case
SubtitleFolderNames == {"sub", "subs", "subtitle", "subtitles"}

\* The subtitle files at any depth below the folder d of the directory.
SubtitlesBelow(w, d) ==
    {Companion(<<d>>, x) : x \in {y \in w.subdirs[d].files : y.ext \in subtitle_exts}}
    \cup UNION {{Companion(<<d, n>>, x) :
                   x \in {y \in w.subdirs[d].dirs[n] : y.ext \in subtitle_exts}} :
                n \in DOMAIN w.subdirs[d].dirs}

\* The subtitle and image files of the directory plus the subtitles below
\* its subtitle folders.
ExpectedCompanions(w) ==
    {Companion(<<>>, x) :
        x \in {y \in w.listing : ~y.is_dir /\ y.ext \in subtitle_exts \cup image_exts}}
    \cup UNION {SubtitlesBelow(w, d.stem) :
                d \in {e \in w.listing :
                          /\ e.is_dir /\ Len(e.stem) = 1 /\ e.stem[1].t = "word"
                          /\ Lower(e.stem[1].w) \in SubtitleFolderNames}}

\* C21: the companion list of a record classified as movie holds exactly the
\* subtitle and image files of the movie's directory and every subtitle file
\* at any depth below a directly nested folder named sub, subs, subtitle or
\* subtitles (in any case), and no file of a folder with another name.
C21_CompanionsFromDirectoryAndSubtitleFolders ==
    (Identified /\ Item.kind = "movie")
       => Range(Item.sidecars) = ExpectedCompanions(world)

----------------------------------------------------------------------------
(* Episode markers and years. *)

\* extract_episode_info was called on a name.
EpisodeInfoCalled == idres.kind = "extract_episode_info"

\* The marker "S<a>E<b>..." the name of the call carries, when it has one.
HasSMarker == \E k \in 1..Len(idres.path.stem) : idres.path.stem[k].t = "SxxEyy"

SMarker ==
    idres.path.stem[CHOOSE k \in 1..Len(idres.path.stem) :
                       /\ idres.path.stem[k].t = "SxxEyy"
                       /\ \A j \in 1..(k - 1) : idres.path.stem[j].t # "SxxEyy"]

\* C22: on a name with the marker S<a>E<b>-E<c>, extract_episode_info returns
\* season a and the episodes b, b+1, ..., c when c > b, and the two-element
\* list b, c when c <= b.
C22_RangeMarkerGivesInclusiveRange ==
    (EpisodeInfoCalled /\ HasSMarker /\ SMarker.c # -1)
       => /\ idres.ret # None
          /\ idres.ret[1].season = SMarker.a
          /\ SMarker.c > SMarker.b =>
                /\ Len(idres.ret[1].episodes) = SMarker.c - SMarker.b + 1
                /\ \A n \in 1..Len(idres.ret[1].episodes) :
                      idres.ret[1].episodes[n] = SMarker.b + n - 1
          /\ SMarker.c <= SMarker.b =>
                idres.ret[1].episodes = <<SMarker.b, SMarker.c>>

\* A range of three episodes was expanded.
C22_Witness ==
    /\ EpisodeInfoCalled /\ HasSMarker
    /\ SMarker.c = SMarker.b + 2
    /\ idres.ret # None /\ Len(idres.ret[1].episodes) = 3

\* The numbers of a list never go down.
Ascending(list) == \A m, n \in 1..Len(list) : m < n => list[m] <= list[n]

\* The numbers of a list go up.
StrictlyAscending(list) == \A m, n \in 1..Len(list) : m < n => list[m] < list[n]

\* C23, as stated: every EpisodeMatch that extract_episode_info returns has
\* a non-empty episode list in ascending order.
C23_EpisodeListNonEmptyAscending ==
    (EpisodeInfoCalled /\ idres.ret # None)
       => /\ Len(idres.ret[1].episodes) >= 1
          /\ Ascending(idres.ret[1].episodes)

\* The marker the call matched: the first "SxxEyy", else the first "NxM".
Matched ==
    LET stem == idres.path.stem
        kinds == IF HasSMarker THEN {"SxxEyy"} ELSE {"NxM"}
    IN  stem[CHOOSE k \in 1..Len(stem) :
                /\ stem[k].t \in kinds
                /\ \A j \in 1..(k - 1) : stem[j].t \notin kinds]

\* C23, amended: every EpisodeMatch that extract_episode_info returns has a
\* non-empty episode list; its numbers go up when the marker has one episode
\* number or a second number c greater than the first b, and it is the list
\* b, c as written when c <= b.
C23_EpisodeListNonEmptyAscendingUnlessReversed ==
    (EpisodeInfoCalled /\ idres.ret # None)
       => /\ Len(idres.ret[1].episodes) >= 1
          /\ (Matched.c = -1 \/ Matched.c > Matched.b) =>
                /\ StrictlyAscending(idres.ret[1].episodes)
                /\ idres.ret[1].episodes[1] = Matched.b
          /\ (Matched.c # -1 /\ Matched.c <= Matched.b) =>
                idres.ret[1].episodes = <<Matched.b, Matched.c>>

\* A reversed marker such as S01E03-E01 was read.
C23_Witness ==
    /\ EpisodeInfoCalled /\ idres.ret # None
    /\ Matched.c # -1 /\ Matched.c < Matched.b
    /\ ~Ascending(idres.ret[1].episodes)

\* The only 4-digit year candidate of the name is the year of a date, and
\* it is in 1900..2040.
OnlyCandidateIsDateYear(name) ==
    \E k \in 1..Len(name) :
        /\ name[k].t = "date"
        /\ 1900 <= name[k].a /\ name[k].a <= 2040
        /\ \A j \in 1..Len(name) : j # k => name[j].t \notin {"date", "year", "(year)"}

\* C24: extract_year returns no year for a name whose only 4-digit year
\* candidate is the year of a date YYYY-MM-DD or YYYY.MM.DD in 1900..2040.
C24_YearOfDateIsNotExtracted ==
    (idres.kind = "extract_year" /\ OnlyCandidateIsDateYear(idres.path.stem))
       => idres.ret = None

\* extract_year was called on a name such as "Show 1999-01-15".
C24_Witness ==
    /\ idres.kind = "extract_year"
    /\ OnlyCandidateIsDateYear(idres.path.stem)
    /\ Len(idres.path.stem) = 2
    /\ idres.ret = None

----------------------------------------------------------------------------
(* The memoization caches. *)

\* A new instance with the options of self: its caches are empty.
FreshIdentifier(self) ==
    Identifier(self.movies_always_in_own_directory, self.minimum_movie_duration_minutes,
               self.skip_duration)

\* C29: on one Identifier instance and an unchanged filesystem, what
\* identify(p) returns does not depend on the paths identified earlier on
\* the instance: the values served from _show_folder_cache,
\* _only_media_file_cache and _duration_cache are those a fresh computation
\* for p gives, so the shared instance and a new instance return the same
\* for p.
C29_SharedInstanceAgreesWithFreshInstance ==
    (identifier # NoValue /\ idres.kind = "identify")
        => idres.ret = identify(FreshIdentifier(identifier), world, idres.path).ret

----------------------------------------------------------------------------
(* The move task (src/src/rosey/tasks/move_task.py).

   task.items are the items 1..n.  run is a sequence of steps at which
   cancel(), called from another thread, may come in between: the test of
   _cancelled at the top of the loop, the progress signal, the call of
   move_with_sidecars, its return or exception with the signals that follow,
   the "Complete" signal, the except clause and the finally clause.  A call
   of move_with_sidecars returns one of the results the mover produces, or
   raises. *)

\* The largest number of items of a task.
MaxItems == 2

Signal(name, args) == [name |-> name, args |-> args]

\* What a call of move_with_sidecars for an item may return: the item
\* moved, skipped or replaced, a failed preflight, a failure with rollback.
TaskOutcomes(item) ==
    {MoveResult(TRUE, [EmptyDetails EXCEPT !.moved = <<item>>], <<>>, FALSE),
     MoveResult(TRUE, [EmptyDetails EXCEPT !.skipped = <<item>>], <<>>, FALSE),
     MoveResult(TRUE, [EmptyDetails EXCEPT !.replaced = <<item>>], <<>>, FALSE),
     MoveResult(FALSE, EmptyDetails, <<"Preflight check failed">>, FALSE),
     MoveResult(FALSE, EmptyDetails, <<"Failed to move", item>>, TRUE)}

\* action = "moved" if result.success else "failed", then the elif chain
Action(res) ==
    IF res.details.skipped # <<>> THEN "skipped"
    ELSE IF res.details.replaced # <<>> THEN "replaced"
    ELSE IF res.details.kept_both # <<>> THEN "kept_both"
    ELSE IF res.success THEN "moved" ELSE "failed"

\* MoveTask(items): started, returned and at_cancel are history (the items
\* whose call began, the results of the calls that returned, and where run
\* stood when cancel() was first called)
MoveTask(n) ==
    [kind |-> "MoveTask", n |-> n, cancelled |-> FALSE, pc |-> "new", idx |-> 0,
     results |-> <<>>, raised |-> FALSE,
     started |-> <<>>, returned |-> <<>>, at_cancel |-> NoValue]

\* task = MoveTask(items)
NewMoveTask ==
    /\ task = NoValue
    /\ \E n \in 0..MaxItems : task' = MoveTask(n)
    /\ UNCHANGED <<movervars, idvars, signals, cachevars>>

\* task.cancel(), from another thread
Cancel ==
    /\ task # NoValue
    /\ ~task.cancelled
    /\ task' = [task EXCEPT !.cancelled = TRUE,
                            !.at_cancel = [kind |-> "cancel", pc |-> task.pc,
                                           started |-> Len(task.started)]]
    /\ UNCHANGED <<movervars, idvars, signals, cachevars>>

\* run: results = []; total = len(self.items); enter the try block
TaskRun ==
    /\ task # NoValue
    /\ task.pc = "new"
    /\ task' = [task EXCEPT !.pc = "loop", !.idx = 0, !.results = <<>>]
    /\ UNCHANGED <<movervars, idvars, signals, cachevars>>

\* a version of the test that never sees the flag
CancelledNever(t) == FALSE

\* if self._cancelled
Cancelled(t) == t.cancelled

\* run: the next item of the loop and the test of _cancelled; on
\* cancellation the "Cancelled" progress signal and break
TaskCheck ==
    /\ task # NoValue
    /\ task.pc = "loop"
    /\ IF task.idx = task.n
       THEN /\ task' = [task EXCEPT !.pc = "complete"]
            /\ UNCHANGED signals
       ELSE IF Cancelled(task)
       THEN /\ signals' = Append(signals, Signal("progress", <<task.idx, task.n, "Cancelled">>))
            /\ task' = [task EXCEPT !.pc = "complete"]
       ELSE /\ task' = [task EXCEPT !.pc = "progress"]
            /\ UNCHANGED signals
    /\ UNCHANGED <<movervars, idvars, cachevars>>

\* run: the progress signal "Moving ..."
TaskProgress ==
    /\ task # NoValue
    /\ task.pc = "progress"
    /\ signals' = Append(signals, Signal("progress", <<task.idx, task.n, "Moving">>))
    /\ task' = [task EXCEPT !.pc = "call"]
    /\ UNCHANGED <<movervars, idvars, cachevars>>

\* run: move_with_sidecars(item, destination, ...) is called
TaskCall ==
    /\ task # NoValue
    /\ task.pc = "call"
    /\ task' = [task EXCEPT !.pc = "moving", !.started = Append(@, task.idx + 1)]
    /\ UNCHANGED <<movervars, idvars, signals, cachevars>>

\* run: move_with_sidecars returned; the result is appended and the
\* item_moved signal, and for a failure the error signal, are emitted
TaskReturn ==
    /\ task # NoValue
    /\ task.pc = "moving"
    /\ \E res \in TaskOutcomes(task.idx + 1) :
          /\ task' = [task EXCEPT !.pc = "loop", !.idx = @ + 1,
                                  !.results = Append(@, res),
                                  !.returned = Append(@, [item |-> task.idx + 1, result |-> res])]
          /\ signals' =
                signals
                \o <<Signal("item_moved", <<task.idx + 1, res.success, Action(res)>>)>>
                \o (IF res.success THEN <<>>
                    ELSE <<Signal("error", <<"Failed to move", task.idx + 1>>)>>)
    /\ UNCHANGED <<movervars, idvars, cachevars>>

\* run: move_with_sidecars raised; control goes to the except clause
TaskRaise ==
    /\ task # NoValue
    /\ task.pc = "moving"
    /\ task' = [task EXCEPT !.pc = "except", !.raised = TRUE]
    /\ UNCHANGED <<movervars, idvars, signals, cachevars>>

\* run: after the loop, the progress signal "Complete"
TaskComplete ==
    /\ task # NoValue
    /\ task.pc = "complete"
    /\ signals' = Append(signals, Signal("progress", <<task.n, task.n, "Complete">>))
    /\ task' = [task EXCEPT !.pc = "finally"]
    /\ UNCHANGED <<movervars, idvars, cachevars>>

\* run: except Exception: the error signal "Move operation failed"
TaskExcept ==
    /\ task # NoValue
    /\ task.pc = "except"
    /\ signals' = Append(signals, Signal("error", <<"Move operation failed">>))
    /\ task' = [task EXCEPT !.pc = "finally"]
    /\ UNCHANGED <<movervars, idvars, cachevars>>

\* a finished signal that leaves out the last result
FinishedWithoutLast(results) ==
    Signal("finished", IF results = <<>> THEN <<>> ELSE SubSeq(results, 1, Len(results) - 1))

\* self.signals.finished.emit(results)
Finished(results) == Signal("finished", results)

\* run: finally: the finished signal
TaskFinally ==
    /\ task # NoValue
    /\ task.pc = "finally"
    /\ signals' = Append(signals, Finished(task.results))
    /\ task' = [task EXCEPT !.pc = "done"]
    /\ UNCHANGED <<movervars, idvars, cachevars>>

\* The steps of run.
TaskRunNext ==
    \/ TaskRun
    \/ TaskCheck
    \/ TaskProgress
    \/ TaskCall
    \/ TaskReturn
    \/ TaskRaise
    \/ TaskComplete
    \/ TaskExcept
    \/ TaskFinally

TaskNext ==
    \/ NewMoveTask
    \/ Cancel
    \/ TaskRunNext

\* The mover and the identification engine are idle while a task runs; the
\* calls of move_with_sidecars are the steps TaskCall, TaskReturn, TaskRaise.
TaskInit ==
    /\ MoverIdle
    /\ world = NoWorld
    /\ identifier = NoValue
    /\ idres = NoValue
    /\ TaskIdle
    /\ CacheIdle

TaskSpec == TaskInit /\ [][TaskNext]_vars

\* The thread pool runs a task it was given, and a call of
\* move_with_sidecars returns or raises.
FairTaskSpec == TaskSpec /\ WF_vars(TaskRunNext)

----------------------------------------------------------------------------
(* The signals of a run and cancellation. *)

\* The positions of the finished signals among the signals emitted.
FinishedAt == {k \in 1..Len(signals) : signals[k].name = "finished"}

\* run has returned.
RunDone == task # NoValue /\ task.pc = "done"

\* C25: run emits the finished signal exactly once, after every other
\* signal of the run, and it carries the results of the calls of
\* move_with_sidecars that returned, in item order - when the run completes,
\* when it is cancelled and when move_with_sidecars raises; and every run
\* that was started gets there.
C25_FinishedOnceLastWithTheResults ==
    /\ [](/\ (task # NoValue /\ task.pc # "done") => FinishedAt = {}
          /\ RunDone =>
                /\ FinishedAt = {Len(signals)}
                /\ Len(signals[Len(signals)].args) = Len(task.returned)
                /\ \A k \in 1..Len(task.returned) :
                      /\ signals[Len(signals)].args[k] = task.returned[k].result
                      /\ task.returned[k].item = k)
    /\ ((task # NoValue /\ task.pc = "loop") ~> RunDone)

\* A run in which one call returned and the next one raised has finished.
C25_Witness ==
    /\ RunDone
    /\ task.raised
    /\ Len(task.returned) = 1
    /\ Len(task.started) = 2

\* C26, as stated: once cancel() has been called, run starts no further
\* call of move_with_sidecars.
C26_NoCallStartsAfterCancel ==
    [][(task # NoValue /\ task.cancelled) => task'.started = task.started]_vars

\* cancel() came after the test of _cancelled for an item and before the
\* call of move_with_sidecars for it.
CancelAfterCheck == task.at_cancel.pc \in {"progress", "call"}

\* C26, amended: the flag is read only at the top of the loop; after
\* cancel() run starts no call of move_with_sidecars, except the one for the
\* item whose test had already passed; a call in progress when cancel() comes
\* is not interrupted, its result is delivered, and no later item is moved.
C26_CancelObservedAtTopOfLoop ==
    (task # NoValue /\ task.cancelled) =>
        /\ Len(task.started) <= task.at_cancel.started + (IF CancelAfterCheck THEN 1 ELSE 0)
        /\ (RunDone /\ ~task.raised) => Len(task.returned) = Len(task.started)
        /\ (/\ RunDone /\ ~task.raised
            /\ task.at_cancel.pc = "moving" /\ task.at_cancel.started < task.n)
              => /\ Len(task.started) = task.at_cancel.started
                 /\ \E k \in 1..Len(signals) :
                       signals[k] = Signal("progress", <<task.idx, task.n, "Cancelled">>)

\* cancel() came during the call for the first of two items, the call
\* returned, and the run ended without moving the second.
C26_Witness ==
    /\ RunDone
    /\ task.n = 2
    /\ task.cancelled /\ task.at_cancel.pc = "moving" /\ task.at_cancel.started = 1
    /\ Len(task.returned) = 1

----------------------------------------------------------------------------
(* The provider cache (src/src/rosey/providers/cache.py).

   The table maps a key (provider, kind, key) to its row (data, updated_at).
   Every method runs with self._lock held; get is two steps, the SELECT and
   the expiry test with the DELETE or the decoding, the other methods are
   one statement.  The clock is time.time(), which the model lets advance
   between any two steps. *)

\* The last reading of the clock.
MaxTime == 2

\* self.ttl_seconds
ttl_seconds == 1

Threads == {"t1", "t2"}

CacheKeys == {<<"tmdb", "movie", "1">>, <<"tmdb", "movie", "2">>}

\* The values the providers store: decoded JSON responses.
CacheData == {[id |-> 1], [id |-> 2]}

\* json.dumps(data)
json_dumps(data) ==
    CASE data = [id |-> 1] -> "{\"id\": 1}"
      [] data = [id |-> 2] -> "{\"id\": 2}"

\* json.loads(data_json)
json_loads(text) ==
    CASE text = "{\"id\": 1}" -> [id |-> 1]
      [] text = "{\"id\": 2}" -> [id |-> 2]

Row(data, updated_at) == [data |-> data, updated_at |-> updated_at]

EmptyTable == [k \in {} |-> Row("", 0)]

\* A thread that is in no call.
Idle == [pc |-> "idle", op |-> "", key |-> <<>>, at |-> 0, row |-> None, ret |-> None]

\* The most recent set for a key: its data, when it was made, and whether
\* a clear has removed it since (history).
LastSet(data, at, cleared) == [kind |-> "set", data |-> data, at |-> at, cleared |-> cleared]

\* ProviderCache(cache_dir, ttl_days)
ProviderCache ==
    [kind |-> "ProviderCache", db |-> EmptyTable, lock |-> "free", now |-> 0,
     last |-> [k \in CacheKeys |-> NoValue]]

\* cache = ProviderCache(cache_dir, ttl_days)
NewProviderCache ==
    /\ provider_cache = NoValue
    /\ provider_cache' = ProviderCache
    /\ threads' = [t \in Threads |-> Idle]
    /\ UNCHANGED <<movervars, idvars, taskvars>>

\* time passes
Tick ==
    /\ provider_cache # NoValue
    /\ provider_cache.now < MaxTime
    /\ provider_cache' = [provider_cache EXCEPT !.now = @ + 1]
    /\ UNCHANGED <<movervars, idvars, taskvars, threads>>

\* a lock that never makes a thread wait
CanAcquireAlways(t) == threads[t].pc = "idle"

\* with self._lock: the thread is about to call and the lock is free
CanAcquire(t) == threads[t].pc = "idle" /\ provider_cache.lock = "free"

\* time.time() - updated_at > self.ttl_seconds
Expired(now, updated_at) == now - updated_at > ttl_seconds

\* The table without the rows of the keys in gone.
Delete(db, gone) == [k \in DOMAIN db \ gone |-> db[k]]

\* get, lines 59-67: the lock is taken and the row is selected
CacheGet(t) ==
    /\ provider_cache # NoValue
    /\ CanAcquire(t)
    /\ \E k \in CacheKeys :
          threads' = [threads EXCEPT ![t] =
                        [Idle EXCEPT !.pc = "get_selected", !.op = "get", !.key = k,
                                     !.row = IF k \in DOMAIN provider_cache.db
                                             THEN Some(provider_cache.db[k]) ELSE None]]
    /\ provider_cache' = [provider_cache EXCEPT !.lock = t]
    /\ UNCHANGED <<movervars, idvars, taskvars>>

\* get, lines 69-87: no row, an expired row that is deleted, or the data
CacheGetCheck(t) ==
    /\ provider_cache # NoValue
    /\ threads[t].pc = "get_selected"
    /\ LET me == threads[t]
           now == provider_cache.now
       IN  IF me.row = None
           THEN /\ threads' = [threads EXCEPT ![t] = [me EXCEPT !.pc = "return", !.at = now,
                                                                 !.ret = None]]
                /\ UNCHANGED provider_cache
           ELSE IF Expired(now, me.row[1].updated_at)
           THEN /\ provider_cache' = [provider_cache EXCEPT !.db = Delete(@, {me.key})]
                /\ threads' = [threads EXCEPT ![t] = [me EXCEPT !.pc = "return", !.at = now,
                                                                 !.ret = None]]
           ELSE /\ threads' = [threads EXCEPT ![t] =
                                 [me EXCEPT !.pc = "return", !.at = now,
                                            !.ret = Some(json_loads(me.row[1].data))]]
                /\ UNCHANGED provider_cache
    /\ UNCHANGED <<movervars, idvars, taskvars>>

\* set: INSERT OR REPLACE with json.dumps(data) and time.time()
CacheSet(t) ==
    /\ provider_cache # NoValue
    /\ CanAcquire(t)
    /\ \E k \in CacheKeys, data \in CacheData :
          /\ provider_cache' =
                [provider_cache EXCEPT
                   !.lock = t,
                   !.db = [x \in DOMAIN @ \cup {k} |->
                             IF x = k THEN Row(json_dumps(data), provider_cache.now) ELSE @[x]],
                   !.last[k] = LastSet(data, provider_cache.now, FALSE)]
          /\ threads' = [threads EXCEPT ![t] = [Idle EXCEPT !.pc = "return", !.op = "set",
                                                            !.key = k]]
    /\ UNCHANGED <<movervars, idvars, taskvars>>

\* clear_expired: DELETE FROM cache WHERE updated_at < time.time() - ttl
CacheClearExpired(t) ==
    /\ provider_cache # NoValue
    /\ CanAcquire(t)
    /\ LET now == provider_cache.now
           gone == {k \in DOMAIN provider_cache.db :
                      provider_cache.db[k].updated_at < now - ttl_seconds}
       IN  /\ provider_cache' =
                 [provider_cache EXCEPT
                    !.lock = t,
                    !.db = Delete(@, gone),
                    !.last = [k \in CacheKeys |->
                                IF @[k] # NoValue /\ @[k].at < now - ttl_seconds
                                THEN [@[k] EXCEPT !.cleared = TRUE] ELSE @[k]]]
           /\ threads' = [threads EXCEPT ![t] =
                            [Idle EXCEPT !.pc = "return", !.op = "clear_expired",
                                         !.ret = Some(Cardinality(gone))]]
    /\ UNCHANGED <<movervars, idvars, taskvars>>

\* clear_all: DELETE FROM cache
CacheClearAll(t) ==
    /\ provider_cache # NoValue
    /\ CanAcquire(t)
    /\ provider_cache' =
          [provider_cache EXCEPT
             !.lock = t,
             !.db = EmptyTable,
             !.last = [k \in CacheKeys |->
                         IF @[k] # NoValue THEN [@[k] EXCEPT !.cleared = TRUE] ELSE @[k]]]
    /\ threads' = [threads EXCEPT ![t] = [Idle EXCEPT !.pc = "return", !.op = "clear_all"]]
    /\ UNCHANGED <<movervars, idvars, taskvars>>

\* the end of the with block: the lock is released and the method returns
CacheRelease(t) ==
    /\ provider_cache # NoValue
    /\ threads[t].pc = "return"
    /\ provider_cache' = [provider_cache EXCEPT !.lock = "free"]
    /\ threads' = [threads EXCEPT ![t] = Idle]
    /\ UNCHANGED <<movervars, idvars, taskvars>>

CacheNext ==
    \/ NewProviderCache
    \/ Tick
    \/ \E t \in Threads : CacheGet(t)
    \/ \E t \in Threads : CacheGetCheck(t)
    \/ \E t \in Threads : CacheSet(t)
    \/ \E t \in Threads : CacheClearExpired(t)
    \/ \E t \in Threads : CacheClearAll(t)
    \/ \E t \in Threads : CacheRelease(t)

\* Nothing else runs while the cache is used.
CacheInit ==
    /\ MoverIdle
    /\ world = NoWorld
    /\ identifier = NoValue
    /\ idres = NoValue
    /\ TaskIdle
    /\ CacheIdle

CacheSpec == CacheInit /\ [][CacheNext]_vars

----------------------------------------------------------------------------
(* What get returns. *)

\* The thread has the result of a get in hand and is about to return it.
GetReturns(t) ==
    /\ provider_cache # NoValue
    /\ threads[t].pc = "return" /\ threads[t].op = "get"

\* What the sets and clears so far say a get of key k at time at returns.
Fresh(k, at) ==
    LET l == provider_cache.last[k]
    IN  l # NoValue /\ at - l.at <= ttl_seconds /\ ~l.cleared

\* C27: under every interleaving of get, set, clear_expired and clear_all
\* from several threads, get returns the value of the most recent set for
\* the key if that set is at most ttl_seconds old and no clear has removed
\* it, and None otherwise; an entry older than the TTL is not returned and
\* is gone from the table when the get that found it returns.
C27_GetReturnsFreshMostRecentSet ==
    \A t \in Threads :
        GetReturns(t) =>
            LET k == threads[t].key
                l == provider_cache.last[k]
            IN  /\ threads[t].ret =
                      (IF Fresh(k, threads[t].at) THEN Some(l.data) ELSE None)
                /\ (l # NoValue /\ threads[t].at - l.at > ttl_seconds)
                      => k \notin DOMAIN provider_cache.db

\* A get found an entry older than the TTL, deleted it and returns None,
\* after the other key was set again.
C27_Witness ==
    \E t \in Threads :
        /\ GetReturns(t)
        /\ threads[t].row # None
        /\ threads[t].ret = None
        /\ threads[t].key \notin DOMAIN provider_cache.db
        /\ DOMAIN provider_cache.db # {}

====
